---- MODULE Spec2Model ----
(***************************************************************************)
(* A model of the GEPA optimizer of current-ai-llc/dsts:                   *)
(*   src/src/gepa.ts   the optimizer (constructor, optimize loop, RNG)     *)
(*   src/src/index.ts  the Pareto utilities and the selection strategies   *)
(* Numbers that the program keeps as IEEE doubles are kept here as exact   *)
(* integers: scores are fixed-point multiples of 1/One, chosen so that     *)
(* every mean the program takes is exact, and the 32-bit RNG word is kept  *)
(* as two 16-bit halves.                                                   *)
(***************************************************************************)
EXTENDS Integers, Sequences, FiniteSets, TLC

(***************************************************************************)
(* Bounds of the model and options of the modelled run                     *)
(***************************************************************************)
\* size of the training set (options.trainset)
TrainSize == 3
\* size of the validation set (options.valset)
ValSize == 2
\* options.reflectionMinibatchSize
MinibatchSize == 2
\* options.maxIterations when it is configured
MaxIter == 3
\* options.maxMetricCalls when it is configured
MaxCalls == 8
\* options.maxBudgetUSD when it is configured
MaxBudget == 6
\* the iteration counter saturates here when no iteration cap is configured
IterCap == 4
\* an option that was not given (undefined)
Undefined == 0 - 1

\* private tieEpsilon: number = 0
tieEpsilon == 0
\* const earlyStoppingTrials = 5
earlyStoppingTrials == 5
\* this.rngState = seed || 123456789, as two 16-bit halves (0x075B, 0xCD15)
DefaultSeedHi == 1883
DefaultSeedLo == 52501
W16 == 65536

\* fixed-point unit: the score 1.0; every mean over a minibatch, the
\* training set or the validation set of multiples of One is exact
One == TrainSize * ValSize * MinibatchSize
\* options.perfectScore ?? 1
perfectScore == One

(***************************************************************************)
(* Generic helpers                                                         *)
(***************************************************************************)
Max(a, b) == IF a >= b THEN a ELSE b
Min(a, b) == IF a <= b THEN a ELSE b

RECURSIVE SumSeq(_)
SumSeq(s) == IF s = <<>> THEN 0 ELSE Head(s) + SumSeq(Tail(s))

\* average(arr): 0 for the empty array, else sum / length
average(arr) == IF Len(arr) = 0 THEN 0 ELSE SumSeq(arr) \div Len(arr)

(***************************************************************************)
(* createRNG: xorshift on a 32-bit word [hi, lo]                           *)
(***************************************************************************)
RECURSIVE BitXor(_, _)
BitXor(p, q) ==
  IF p = 0 THEN q
  ELSE IF q = 0 THEN p
  ELSE ((p + q) % 2) + 2 * BitXor(p \div 2, q \div 2)

Xor32(u, v) == [hi |-> BitXor(u.hi, v.hi), lo |-> BitXor(u.lo, v.lo)]

\* x << 13, truncated to 32 bits
Shl13(w) == [hi |-> ((w.hi * 8192) % W16) + (w.lo \div 8), lo |-> (w.lo * 8192) % W16]
\* x >>> 17
Shr17(w) == [hi |-> 0, lo |-> w.hi \div 2]
\* x << 5, truncated to 32 bits
Shl5(w) == [hi |-> ((w.hi * 32) % W16) + (w.lo \div 2048), lo |-> (w.lo * 32) % W16]

\* this.rngState ^= this.rngState << 13
XorShl13(w) == Xor32(w, Shl13(w))
\* this.rngState ^= this.rngState >>> 17
XorShr17(w) == Xor32(w, Shr17(w))
\* this.rngState ^= this.rngState << 5
XorShl5(w) == Xor32(w, Shl5(w))

\* one draw: the new rngState; the value returned is rngState / 2^32
RngStep(state) == XorShl5(XorShr17(XorShl13(state)))

\* Math.floor(rng() * k) for the word just produced, 1 <= k < 2^15
FloorMul(word, k) == (word.hi * k + ((word.lo * k) \div W16)) \div W16

\* rng() * weight <= cum, i.e. r - (w1 + .. + wi) <= 0 with cum = w1 + .. + wi
DrawLeq(word, weight, cum) ==
  LET quo == word.hi * weight + ((word.lo * weight) \div W16)
      rem == (word.lo * weight) % W16
  IN  quo < cum * W16 \/ (quo = cum * W16 /\ rem = 0)

(***************************************************************************)
(* Pareto utilities (src/src/index.ts, pareto-utils part)                  *)
(***************************************************************************)
\* a[key] ?? 0
Get(a, key) == IF key \in DOMAIN a THEN a[key] ELSE 0

\* the comparison runs over the keys of a only
checkDominanceOwnKeys(a, b, epsilon) ==
  LET aDominates == \E k \in DOMAIN a : Get(a, k) > Get(b, k) + epsilon
      bDominates == \E k \in DOMAIN a : Get(b, k) > Get(a, k) + epsilon
  IN  IF aDominates /\ ~bDominates THEN 1
      ELSE IF bDominates /\ ~aDominates THEN 0 - 1
      ELSE 0

\* checkDominance(a, b, epsilon): 1 if a dominates b, -1 if b dominates a
checkDominance(a, b, epsilon) ==
  LET keys == (DOMAIN a) \cup (DOMAIN b)
      aDominates == \E k \in keys : Get(a, k) > Get(b, k) + epsilon
      bDominates == \E k \in keys :
                      /\ ~(Get(a, k) > Get(b, k) + epsilon)
                      /\ Get(b, k) > Get(a, k) + epsilon
  IN  IF aDominates /\ ~bDominates THEN 1
      ELSE IF bDominates /\ ~aDominates THEN 0 - 1
      ELSE 0

SelectSeq2(s, Keep(_)) ==
  LET F[i \in 0..Len(s)] ==
        IF i = 0 THEN <<>>
        ELSE IF Keep(i) THEN Append(F[i - 1], s[i]) ELSE F[i - 1]
  IN  F[Len(s)]

\* the front keeps the points the new candidate dominates
ParetoInsertKeeping(front, cand, eps) ==
  IF \E i \in 1..Len(front) :
       checkDominance(cand.scores, front[i].scores, eps) = 0 - 1
  THEN front
  ELSE Append(front, [idx |-> cand.idx, scores |-> cand.scores, dominated |-> <<>>])

\* one pass of the loop body of buildParetoFront for one candidate
ParetoInsert(front, cand, eps) ==
  LET isDominated == \E i \in 1..Len(front) :
                       checkDominance(cand.scores, front[i].scores, eps) = 0 - 1
      dominatedIndices == {i \in 1..Len(front) :
                             checkDominance(cand.scores, front[i].scores, eps) = 1}
      newFront == SelectSeq2(front, LAMBDA i : i \notin dominatedIndices)
      dominated == SelectSeq2([i \in 1..Len(front) |-> front[i].idx],
                              LAMBDA i : i \in dominatedIndices)
  IN  IF isDominated THEN front
      ELSE Append(newFront, [idx |-> cand.idx, scores |-> cand.scores,
                             dominated |-> dominated])

\* buildParetoFront(candidates, tieEpsilon): candidates are [idx, scores]
RECURSIVE ParetoFold(_, _, _)
ParetoFold(front, cands, eps) ==
  IF cands = <<>> THEN front
  ELSE ParetoFold(ParetoInsert(front, Head(cands), eps), Tail(cands), eps)

buildParetoFront(cands, eps) == ParetoFold(<<>>, cands, eps)

(***************************************************************************)
(* Strategies (src/src/index.ts, strategies part)                          *)
(***************************************************************************)
\* Object.keys(candidate): a candidate is a sequence of [k, v] in insertion order
Keys(candidate) == [i \in 1..Len(candidate) |-> candidate[i].k]

\* the first component, whatever the iteration
RoundRobinStuck(candidate, iteration) ==
  IF Len(Keys(candidate)) = 0 THEN <<>> ELSE <<Keys(candidate)[1]>>

\* RoundRobinComponentSelector.selectComponents
RoundRobinSelect(candidate, iteration) ==
  LET components == Keys(candidate)
  IN  IF Len(components) = 0 THEN <<>>
      ELSE <<components[(iteration % Len(components)) + 1]>>

\* AllComponentSelector.selectComponents
AllSelect(candidate, iteration) == Keys(candidate)

\* the scan with >= for >: the last of the best wins
BestIndexLast(scalars) ==
  LET F[i \in 1..Len(scalars)] ==
        IF i = 1 THEN 1
        ELSE IF scalars[i] >= scalars[F[i - 1]] THEN i ELSE F[i - 1]
  IN  F[Len(scalars)] - 1

\* CurrentBestCandidateSelector.selectCandidate, on the list of scalar scores;
\* indices are 0-based as in the program
BestIndex(scalars) ==
  LET F[i \in 1..Len(scalars)] ==
        IF i = 1 THEN 1
        ELSE IF scalars[i] > scalars[F[i - 1]] THEN i ELSE F[i - 1]
  IN  F[Len(scalars)] - 1

\* updateShuffled: the Fisher-Yates loop, i from n-1 down to 1 (0-based);
\* st = [ids, rng]
RECURSIVE FisherYates(_, _)
\* ids[i] = ids[j] without the other half of the exchange
SwapCopy(ids, i, j) == [ids EXCEPT ![i + 1] = ids[j + 1]]

\* [indices[i], indices[j]] = [indices[j], indices[i]], i and j 0-based
Swap(ids, i, j) == [ids EXCEPT ![i + 1] = ids[j + 1], ![j + 1] = ids[i + 1]]

\* one turn of the loop, x being the word rng() has just produced
FisherYatesStep(ids, x, i) ==
  FisherYates([ids |-> Swap(ids, i, FloorMul(x, i + 1)), rng |-> x], i - 1)

FisherYates(st, i) ==
  IF i <= 0 THEN st ELSE FisherYatesStep(st.ids, RngStep(st.rng), i)

\* the indices in index order, whatever their frequencies
SortByIndex(rest, freq) == [i \in 1..Cardinality(rest) |-> i - 1]

\* [0..n-1].sort by frequency (the sort is stable: ties keep index order)
RECURSIVE SortByFreq(_, _)
SortByFreq(rest, freq) ==
  IF rest = {} THEN <<>>
  ELSE LET m == CHOOSE a \in rest :
                  \A b \in rest : freq[a] < freq[b] \/ (freq[a] = freq[b] /\ a <= b)
       IN  <<m>> \o SortByFreq(rest \ {m}, freq)

\* nothing is pushed
PadLoopSkipped(st, cands, k, numToPad) == st

\* the padding loop of updateShuffled; st = [padded, freq]
RECURSIVE PadLoop(_, _, _, _)
PadLoop(st, cands, k, numToPad) ==
  IF k >= numToPad THEN st
  ELSE LET id == cands[(k % Len(cands)) + 1]
       IN  PadLoop([padded |-> Append(st.padded, id),
                    freq |-> [st.freq EXCEPT ![id] = @ + 1]],
                   cands, k + 1, numToPad)

\* EpochShuffledBatchSampler.updateShuffled; s = [shuffled, epoch, freq],
\* returns [s, rng]
\* the second half of updateShuffled: fy = [ids, rng] is what the shuffle
\* left, f1 the frequencies with this epoch's ids counted
PadShuffled(s, fy, f1, numToPad) ==
  LET pad == PadLoop([padded |-> fy.ids, freq |-> f1],
                     SortByFreq(DOMAIN f1, f1), 0, numToPad)
  IN  [s |-> [shuffled |-> IF numToPad > 0 THEN pad.padded ELSE fy.ids,
              epoch |-> s.epoch + 1,
              freq |-> IF numToPad > 0 THEN pad.freq ELSE f1],
       rng |-> fy.rng]

updateShuffled(s, rng, trainSize, mb) ==
  PadShuffled(s,
              FisherYates([ids |-> [i \in 1..trainSize |-> i - 1], rng |-> rng],
                          trainSize - 1),
              [i \in 0..(trainSize - 1) |-> s.freq[i] + 1],
              IF trainSize % mb = 0 THEN 0 ELSE mb - (trainSize % mb))

\* while (currEpoch >= this.epoch) this.updateShuffled(trainSize)
RECURSIVE ReshuffleWhile(_, _, _, _)
ReshuffleWhile(st, currEpoch, trainSize, mb) ==
  IF currEpoch >= st.s.epoch
  THEN ReshuffleWhile(updateShuffled(st.s, st.rng, trainSize, mb), currEpoch, trainSize, mb)
  ELSE st

\* EpochShuffledBatchSampler.nextBatch; returns [s, rng, batch]
\* the first epoch: if (this.epoch === -1) { this.epoch = 0; updateShuffled }
FirstEpoch(s, rng, trainSize, mb) ==
  IF s.epoch = 0 - 1
  THEN updateShuffled([s EXCEPT !.epoch = 0], rng, trainSize, mb)
  ELSE [s |-> s, rng |-> rng]

\* blocksPerEpoch, currEpoch and the while loop
Reshuffled(st, trainSize, mb, iteration) ==
  ReshuffleWhile(st, iteration \div Max(1, Len(st.s.shuffled) \div mb), trainSize, mb)

\* base = (iteration * minibatchSize) % shuffled.length and the slice
SliceOf(st, mb, iteration) ==
  LET len  == Len(st.s.shuffled)
      base == (iteration * mb) % len
  IN  [s |-> st.s, rng |-> st.rng,
       batch |-> SubSeq(st.s.shuffled, base + 1, Min(base + mb, len))]

nextBatch(s, rng, trainSize, mb, iteration) ==
  SliceOf(Reshuffled(FirstEpoch(s, rng, trainSize, mb), trainSize, mb, iteration),
          mb, iteration)

\* new EpochShuffledBatchSampler(...): shuffled = [], epoch = -1, freq = new Map()
NewSampler(trainSize) ==
  [shuffled |-> <<>>, epoch |-> 0 - 1, freq |-> [i \in 0..(trainSize - 1) |-> 0]]

\* every record is put in the front of every instance
InstanceFrontEveryone(instanceScores, i) == 1..Len(instanceScores)

\* the instance front of validation instance i: the records with the best score
InstanceFront(instanceScores, i) ==
  {k \in 1..Len(instanceScores) :
     \A k2 \in 1..Len(instanceScores) : instanceScores[k][i] >= instanceScores[k2][i]}

\* the keys of the frequency map in first-insertion order: fronts in instance
\* order, the members of a front in increasing order
RECURSIVE FreqKeys(_, _, _)
FreqKeys(instanceScores, i, acc) ==
  IF i > Len(instanceScores[1]) THEN acc
  ELSE LET front == InstanceFront(instanceScores, i)
           seen  == {acc[n] : n \in 1..Len(acc)}
           fresh == SortByFreq(front \ seen, [k \in front |-> 0])
       IN  FreqKeys(instanceScores, i + 1, acc \o fresh)

\* the weight of record k: the number of instance fronts it belongs to
Weight(instanceScores, k) ==
  Cardinality({i \in 1..Len(instanceScores[1]) : k \in InstanceFront(instanceScores, i)})

\* the cumulative-weight walk of selectProgramCandidateFromInstanceFronts
RECURSIVE Walk(_, _, _, _, _, _)
Walk(x, total, cands, weights, i, cum) ==
  IF i > Len(cands) THEN cands[Len(cands)]
  ELSE IF DrawLeq(x, total, cum + weights[i]) THEN cands[i]
  ELSE Walk(x, total, cands, weights, i + 1, cum + weights[i])

\* selectProgramCandidateFromInstanceFronts; returns [idx, rng], idx 0-based
\* r = rand() * totalWeight and the walk, x being the word rand() produced
Sample(x, cands, weights) ==
  [idx |-> Walk(x, SumSeq(weights), cands, weights, 1, 0) - 1, rng |-> x]

\* the fallback when no record has weight, the sampling otherwise
FallbackOrSample(cands, weights, perProgScores, rng) ==
  IF SumSeq(weights) = 0 \/ Len(cands) = 0
  THEN [idx |-> BestIndex(perProgScores), rng |-> rng]
  ELSE Sample(RngStep(rng), cands, weights)

\* the keys of the frequency map and their counts
Weighted(instanceScores, cands, perProgScores, rng) ==
  FallbackOrSample(cands,
                   [n \in 1..Len(cands) |-> Weight(instanceScores, cands[n])],
                   perProgScores, rng)

selectProgramCandidateFromInstanceFronts(instanceScores, perProgScores, rng) ==
  Weighted(instanceScores, FreqKeys(instanceScores, 1, <<>>), perProgScores, rng)

\* ParetoCandidateSelector.selectCandidate; returns [idx, rng]
ParetoSelect(candidates, instanceScores, rng) ==
  IF Len(instanceScores) = 0
  THEN [idx |-> BestIndex([i \in 1..Len(candidates) |-> candidates[i].scalarScore]),
        rng |-> rng]
  ELSE selectProgramCandidateFromInstanceFronts(
         instanceScores,
         [k \in 1..Len(instanceScores) |->
            IF Len(instanceScores[k]) = 0 THEN 0
            ELSE SumSeq(instanceScores[k]) \div Len(instanceScores[k])],
         rng)

\* CurrentBestCandidateSelector.selectCandidate; returns [idx, rng]
CurrentBestSelect(candidates, rng) ==
  [idx |-> BestIndex([i \in 1..Len(candidates) |-> candidates[i].scalarScore]),
   rng |-> rng]

(***************************************************************************)
(* The optimizer (src/src/gepa.ts)                                         *)
(***************************************************************************)
VARIABLES
  options,            \* the GEPAOptions the optimizer was constructed with
  adapter,            \* the adapter collaborator: how it answers evaluate
  pc,                 \* where the process is: "new", "start", "loop", "gate",
                      \* "reflect", "evalParent", "evalChild", "decide", "evalVal",
                      \* "final", "done", "error"
  iteration,          \* let iteration
  totalMetricCalls,   \* this.totalMetricCalls
  totalCostUSD,       \* this.totalCostUSD
  rngState,           \* this.rngState
  sampler,            \* this.batchSampler: [shuffled, epoch, freq]
  candidates,         \* const candidates: the archive
  perInstanceScores,  \* const perInstanceScores
  stagnation,         \* let stagnation
  history,            \* this.history
  parentIdx,          \* const parentIdx (0-based)
  minibatch,          \* const minibatch: instance ids
  newCandidate,       \* const newCandidate
  parentMinibatchSum, \* const parentMinibatchSum
  childMinibatchSum,  \* const childMinibatchSum
  checkpoint,         \* the checkpoint file of the persistence directory
  archiveLog,         \* the archive event file of the persistence directory
  result,             \* the GEPAResult returned by optimize(), or the error
                      \* new GEPA(options) threw
  uncharged,          \* instances passed to adapter.evaluate and not (yet)
                      \* added to totalMetricCalls, counted up to GhostCap
  unbilled,           \* cost_usd the adapter returned and the process did
                      \* not add to totalCostUSD, counted up to GhostCap
  run,                \* the number of this process among those launched
  picks,              \* the parent index and the minibatch of every pass of
                      \* this process so far, in order (one per value of
                      \* the iteration counter)
  ref,                \* the archive, the best candidate and the picks the
                      \* first process of a comparison ended with
  call                \* a call of a function of the library on its own: its
                      \* arguments and, once it has returned, its result

vars == <<options, adapter, pc, iteration, totalMetricCalls, totalCostUSD,
          rngState, sampler, candidates, perInstanceScores, stagnation,
          history, parentIdx, minibatch, newCandidate, parentMinibatchSum,
          childMinibatchSum, checkpoint, archiveLog, result, uncharged,
          unbilled, run, picks, ref, call>>

\* no value yet
NoRecord == [none |-> TRUE]

\* the texts of the model: sequences of tokens, " " being white space
SeedText == <<"a">>
\* what the reflection model may answer
LMOutputs == {<<"b">>, <<" ", "b", " ">>}

\* options.seedCandidate
seedCandidate == <<[k |-> "system", v |-> SeedText], [k |-> "user", v |-> SeedText]>>

\* String.prototype.trim on a token sequence
RECURSIVE TrimLeft(_)
TrimLeft(t) == IF t # <<>> /\ Head(t) = " " THEN TrimLeft(Tail(t)) ELSE t
RECURSIVE TrimRight(_)
TrimRight(t) ==
  IF t # <<>> /\ t[Len(t)] = " " THEN TrimRight(SubSeq(t, 1, Len(t) - 1)) ELSE t
Trim(t) == TrimRight(TrimLeft(t))

\* the instances of options.trainset, and of valset ?? trainset
trainset == [i \in 1..TrainSize |-> i - 1]
validationSet ==
  IF options.hasValset THEN [i \in 1..ValSize |-> TrainSize + i - 1] ELSE trainset

(***************************************************************************)
(* The adapter: evaluate(batch, candidate, captureTraces)                  *)
(***************************************************************************)
\* per-instance scores an adapter may return
ScoreValues == {0, One}
\* latency_ms values an adapter may report
Latencies == {0, 1}
\* the cost_usd a metered adapter reports for an instance: one unit for an
\* even-numbered instance, no cost_usd field (Undefined) for the others
InstanceCost(inst) == IF inst % 2 = 0 THEN 1 ELSE Undefined

\* what tells two candidates apart for a deterministic adapter: the number
\* of components whose text is the reflection model's
Signature(candidate) ==
  Cardinality({i \in 1..Len(candidate) : candidate[i].v # SeedText})

\* what evaluate may return for a batch: the scores, and the metrics when
\* the adapter reports them (one latency per call, on each instance)
Responses(batch, candidate) ==
  LET n == Len(batch)
      scoreSeqs ==
        IF adapter.det
        THEN {[i \in 1..n |-> adapter.score[Signature(candidate)][batch[i]]]}
        ELSE [1..n -> ScoreValues]
      metricsSeqs ==
        IF adapter.metrics
        THEN {[i \in 1..n |-> [latency_ms |-> l, cost_usd |-> InstanceCost(batch[i])]] :
                l \in (IF adapter.det THEN {1} ELSE Latencies)}
        ELSE {<<>>}
  IN  {[scores |-> sc, hasMetrics |-> adapter.metrics, metrics |-> m] :
         sc \in scoreSeqs, m \in metricsSeqs}

\* the ghost counters stop counting here
GhostCap == 4
\* what is owed after a call that passed `given` and was charged `charged`
Owed(owed, given, charged) == Min(GhostCap, owed + given - charged)

\* the cost_usd values an answer carries, summed
ReportedCost(resp) ==
  IF resp.hasMetrics
  THEN SumSeq([i \in 1..Len(resp.metrics) |-> Max(0, resp.metrics[i].cost_usd)])
  ELSE 0

\* the ghost counters after a call of adapter.evaluate on n instances that
\* returned the cost c, given what the step adds to the two counters
Audit(n, c) ==
  /\ uncharged' = Owed(uncharged, n, totalMetricCalls' - totalMetricCalls)
  /\ unbilled' = Owed(unbilled, c, totalCostUSD' - totalCostUSD)

\* evalBatch.metrics.reduce((sum, m) => sum + (m.cost_usd ?? 0), 0),
\* under if (evalBatch.metrics)
CostOf(resp) ==
  IF resp.hasMetrics
  THEN SumSeq([i \in 1..Len(resp.metrics) |->
                 IF resp.metrics[i].cost_usd = Undefined THEN 0
                 ELSE resp.metrics[i].cost_usd])
  ELSE 0

\* the mean latency is stored as it is, not negated
CandidateEvalRawLatency(resp) ==
  [scores |-> [correctness |-> average(resp.scores),
               latency |-> IF resp.hasMetrics /\ Len(resp.metrics) > 0
                           THEN average([i \in 1..Len(resp.metrics) |->
                                           resp.metrics[i].latency_ms])
                           ELSE 0],
   scalarScore |-> average(resp.scores),
   instanceScores |-> resp.scores]

\* what evaluateCandidate computes from the adapter's answer
CandidateEval(resp) ==
  LET correctness == average(resp.scores)
      avgLatency ==
        IF resp.hasMetrics /\ Len(resp.metrics) > 0
        THEN average([i \in 1..Len(resp.metrics) |-> resp.metrics[i].latency_ms])
        ELSE 0
  IN  [scores |-> [correctness |-> correctness, latency |-> 0 - Max(0, avgLatency)],
       scalarScore |-> correctness,
       instanceScores |-> resp.scores]

(***************************************************************************)
(* Persistence: the checkpoint file and the archive event file             *)
(***************************************************************************)
\* the checkpoint file is one of: missing (NoRecord), the JSON text of a
\* state, or a text JSON.parse throws on, [truncated |-> what was written]
Unparsable(file) == "truncated" \in DOMAIN file

\* the text is read as if it were whole
loadCheckpointLenient ==
  IF Unparsable(checkpoint) THEN checkpoint.truncated ELSE checkpoint

\* FilePersistence.loadCheckpoint: null when the file does not exist and
\* when reading or JSON.parse throws, else the state JSON.parse returns
loadCheckpoint ==
  IF Unparsable(checkpoint) THEN NoRecord ELSE checkpoint

\* FilePersistence.saveCheckpoint: the file then holds JSON.stringify(state);
\* the states of the model (integers, strings, arrays and records of them)
\* are read back from it as they were written
saveCheckpoint(cp) == cp

\* the CheckpointState the loop builds
CheckpointState(it, calls, cost, rng, cands, pis) ==
  [iteration |-> it, totalMetricCalls |-> calls, totalCostUSD |-> cost,
   rngState |-> rng, candidates |-> cands, perInstanceScores |-> pis]

\* the event file is written anew with the event
appendArchiveOverwriting(log, it, event) == <<[iteration |-> it, event |-> event]>>

\* FilePersistence.appendArchive: one more line in the event file
appendArchive(log, it, event) == Append(log, [iteration |-> it, event |-> event])

(***************************************************************************)
(* new GEPA(options)                                                       *)
(***************************************************************************)
\* the seed is mixed with something that differs from process to process
SeedStatePerProcess(seed) ==
  [hi |-> (seed \div W16) + run, lo |-> seed % W16]

\* seed || 123456789
SeedState(seed) ==
  IF seed = 0 THEN [hi |-> DefaultSeedHi, lo |-> DefaultSeedLo]
  ELSE [hi |-> seed \div W16, lo |-> seed % W16]

\* the constructor's last check: at least one stopping criterion
HasStoppingCriterion(o) ==
  ~(o.maxMetricCalls = Undefined /\ o.maxIterations = Undefined
      /\ o.maxBudgetUSD = Undefined)

\* options.taskLM is none of a string, a function, an object with a model
InvalidTaskLM(o) ==
  o.taskLM \notin {"undefined", "string", "function", "object"}

\* !this.adapter after the first lines of the constructor: no adapter was
\* given, and no DefaultAdapter was made of a string or an object taskLM
MissingAdapter(o) == ~o.hasAdapter /\ o.taskLM \notin {"string", "object"}

\* a reflection model is asked for unless the adapter proposes the texts
MissingReflectionLMUnlessProposing(o) == ~o.reflectionLM /\ ~adapter.hasPropose

\* initializeLanguageModel(options.reflectionLM): if (!config) throw
MissingReflectionLM(o) == ~o.reflectionLM

\* the error new GEPA(options) throws: the first of its checks that fails
ConstructorError(o) ==
  IF InvalidTaskLM(o)
  THEN "taskLM must be a string, function, or an object with a model property"
  ELSE IF MissingAdapter(o) THEN "Either adapter or taskLM must be provided"
  ELSE IF MissingReflectionLM(o) THEN "reflectionLM must be provided"
  ELSE IF ~HasStoppingCriterion(o)
  THEN "You must set at least one of maxMetricCalls, maxIterations, or maxBudgetUSD"
  ELSE "none"

\* the fields the constructor and the field initialisers set
Construct ==
  /\ pc = "new"
  /\ IF ConstructorError(options) = "none"
     THEN /\ pc' = "start"
          /\ rngState' = SeedState(options.seed)
          /\ sampler' = NewSampler(TrainSize)
          /\ totalMetricCalls' = 0
          /\ totalCostUSD' = 0
          /\ history' = <<>>
          /\ UNCHANGED result
     ELSE /\ pc' = "error"
          /\ result' = [error |-> ConstructorError(options)]
          /\ UNCHANGED <<rngState, sampler, totalMetricCalls, totalCostUSD, history>>
  /\ UNCHANGED <<options, adapter, ref, call, picks, iteration, candidates, perInstanceScores,
                 stagnation, parentIdx, minibatch, newCandidate,
                 parentMinibatchSum, childMinibatchSum, checkpoint, archiveLog,
                 uncharged, unbilled, run>>

(***************************************************************************)
(* optimize(): from the call to the head of the main loop                  *)
(***************************************************************************)
\* persistence?.resume && this.persistence, and a checkpoint was loaded
Resumes == options.persist /\ options.resume /\ loadCheckpoint # NoRecord

\* resume from the checkpoint; the archive it holds is not empty, so the
\* seed is not evaluated
StartResumed ==
  /\ pc = "start"
  /\ Resumes
  /\ Len(loadCheckpoint.candidates) > 0
  /\ iteration' = loadCheckpoint.iteration
  /\ totalMetricCalls' = loadCheckpoint.totalMetricCalls
  /\ totalCostUSD' = loadCheckpoint.totalCostUSD
  /\ rngState' = loadCheckpoint.rngState
  /\ candidates' = loadCheckpoint.candidates
  /\ perInstanceScores' = loadCheckpoint.perInstanceScores
  /\ stagnation' = 0
  /\ UNCHANGED <<uncharged, unbilled>>
  /\ pc' = "loop"
  /\ UNCHANGED <<options, adapter, ref, call, picks, sampler, history, parentIdx, minibatch,
                 newCandidate, parentMinibatchSum, childMinibatchSum,
                 checkpoint, archiveLog, result, run>>

\* no checkpoint: evaluate the seed on the validation set and store it
StartFresh ==
  /\ pc = "start"
  /\ ~Resumes
  /\ \E resp \in Responses(validationSet, seedCandidate) :
       LET seedEval == CandidateEval(resp)
       IN  /\ totalMetricCalls' = totalMetricCalls + Len(validationSet)
           /\ totalCostUSD' = totalCostUSD + CostOf(resp)
           /\ candidates' = <<[candidate |-> seedCandidate,
                               scores |-> seedEval.scores,
                               scalarScore |-> seedEval.scalarScore,
                               parent |-> Undefined]>>
           /\ perInstanceScores' = <<seedEval.instanceScores>>
           /\ Audit(Len(validationSet), ReportedCost(resp))
  /\ iteration' = 0
  /\ stagnation' = 0
  /\ pc' = "loop"
  /\ UNCHANGED <<options, adapter, ref, call, picks, rngState, sampler, history, parentIdx,
                 minibatch, newCandidate, parentMinibatchSum,
                 childMinibatchSum, checkpoint, archiveLog, result, run>>

(***************************************************************************)
(* The head of the main loop: stop checks, parent, minibatch               *)
(***************************************************************************)
\* the counter is not advanced
NextIterationMissing(it) == it

\* iteration++; without an iteration cap the counter of the model saturates
\* at IterCap: past it the head of the loop and the gate, which is all a
\* run can then do in the model, treat every value alike
NextIteration(it) ==
  IF options.maxIterations = Undefined /\ it >= IterCap THEN it ELSE it + 1

\* the check with > for >=
StopOnMetricCallsStrict ==
  options.maxMetricCalls # Undefined /\ totalMetricCalls > options.maxMetricCalls

\* if (maxMetricCalls !== undefined && totalMetricCalls >= maxMetricCalls) break
StopOnMetricCalls ==
  options.maxMetricCalls # Undefined /\ totalMetricCalls >= options.maxMetricCalls

\* if (maxBudgetUSD !== undefined && totalCostUSD >= maxBudgetUSD) break
StopOnBudget ==
  options.maxBudgetUSD # Undefined /\ totalCostUSD >= options.maxBudgetUSD

\* if (maxIterations !== undefined && iteration > maxIterations) break
StopOnIterations(it) ==
  options.maxIterations # Undefined /\ it > options.maxIterations

\* candidates.map((c, idx) => ({ idx, scores: c.scores })), idx 0-based
FrontInput(cands) == [i \in 1..Len(cands) |-> [idx |-> i - 1, scores |-> cands[i].scores]]

\* this.candidateSelector.selectCandidate(candidates, paretoIndices)
selectCandidate(cands, pis, rng) ==
  IF options.strategy = "pareto"
  THEN ParetoSelect(cands, pis, rng)
  ELSE CurrentBestSelect(cands, rng)

\* the parent and the minibatch of the pass, nb being what nextBatch returned
Drawn(it, idx, nb) ==
  /\ parentIdx' = idx
  /\ sampler' = nb.s
  /\ rngState' = nb.rng
  /\ minibatch' = nb.batch
  /\ picks' = IF it = iteration THEN picks
               ELSE Append(picks, [parent |-> idx, minibatch |-> nb.batch])

\* const minibatch = this.batchSampler.nextBatch(trainset.length, iteration),
\* sel being what selectCandidate returned
SelectAndDraw(it, sel) ==
  Drawn(it, sel.idx, nextBatch(sampler, sel.rng, TrainSize, MinibatchSize, it))

LoopHead ==
  /\ pc = "loop"
  /\ IF StopOnMetricCalls
     THEN /\ pc' = "final"
          /\ UNCHANGED <<iteration, rngState, sampler, parentIdx, minibatch, picks>>
     ELSE LET it == NextIteration(iteration)
          IN  /\ iteration' = it
              /\ IF StopOnBudget \/ StopOnIterations(it)
                 THEN /\ pc' = "final"
                      /\ UNCHANGED <<rngState, sampler, parentIdx, minibatch, picks>>
                 ELSE /\ SelectAndDraw(it, selectCandidate(candidates, perInstanceScores,
                                                           rngState))
                      /\ pc' = IF options.skipPerfectScore THEN "gate" ELSE "reflect"
  /\ UNCHANGED <<options, adapter, ref, call, totalMetricCalls, totalCostUSD, candidates,
                 perInstanceScores, stagnation, history, newCandidate,
                 parentMinibatchSum, childMinibatchSum, checkpoint, archiveLog,
                 result, uncharged, unbilled, run>>

(***************************************************************************)
(* The perfect-score gate                                                  *)
(***************************************************************************)
\* the constants of the loop body go out of scope when a pass ends
LeavePass ==
  /\ parentIdx' = 0
  /\ minibatch' = <<>>
  /\ newCandidate' = <<>>
  /\ parentMinibatchSum' = 0
  /\ childMinibatchSum' = 0

\* the gate with > for >=
IsPerfectStrict(scores) == average(scores) > perfectScore

\* if (avgScore >= this.perfectScore) continue
IsPerfect(scores) == average(scores) >= perfectScore

Gate ==
  /\ pc = "gate"
  /\ \E resp \in Responses(minibatch, candidates[parentIdx + 1].candidate) :
       /\ totalCostUSD' = totalCostUSD + CostOf(resp)
       /\ UNCHANGED totalMetricCalls
       /\ Audit(Len(minibatch), ReportedCost(resp))
       /\ IF IsPerfect(resp.scores)
          THEN /\ pc' = "loop"
               /\ LeavePass
          ELSE /\ pc' = "reflect"
               /\ UNCHANGED <<parentIdx, minibatch, newCandidate,
                              parentMinibatchSum, childMinibatchSum>>
  /\ UNCHANGED <<options, adapter, ref, call, picks, iteration, rngState, sampler, candidates,
                 perInstanceScores, stagnation, history, checkpoint,
                 archiveLog, result, run>>

(***************************************************************************)
(* Reflection: reflectAndPropose                                           *)
(***************************************************************************)
\* a ComponentSelector object given in options.componentSelector: it may
\* name any component, here one the candidate may not have
CustomSelect(candidate, it) == <<"tools">>

\* this.componentSelector.selectComponents(parent.candidate, iteration)
selectComponents(candidate, it) ==
  IF options.componentSelector = "all"
  THEN AllSelect(candidate, it)
  ELSE IF options.componentSelector = "custom"
  THEN CustomSelect(candidate, it)
  ELSE RoundRobinSelect(candidate, it)

\* newCandidate[component] = text on the copy { ...candidate }
SetText(candidate, component, text) ==
  IF \E i \in 1..Len(candidate) : candidate[i].k = component
  THEN [i \in 1..Len(candidate) |->
          IF candidate[i].k = component THEN [k |-> component, v |-> text]
          ELSE candidate[i]]
  ELSE Append(candidate, [k |-> component, v |-> text])

\* the default loop over componentsToUpdate: a component with no examples
\* is skipped, another gets the trimmed answer of the reflection model
RECURSIVE ProposeLoop(_, _, _, _)
ProposeLoop(cand, components, withExamples, lm) ==
  IF components = <<>> THEN cand
  ELSE LET c == Head(components)
       IN  ProposeLoop(IF c \in withExamples THEN SetText(cand, c, Trim(lm[c])) ELSE cand,
                       Tail(components), withExamples, lm)

\* what adapter.proposeNewTexts may return: any candidate the adapter likes
AdapterProposals(candidate) ==
  {SetText(candidate, "system", <<"b">>), <<[k |-> "system", v |-> <<"b">>]>>}

\* the candidates reflectAndPropose may return for this parent
Proposals(candidate, components) ==
  LET cs == {components[i] : i \in 1..Len(components)}
  IN  IF adapter.hasPropose THEN AdapterProposals(candidate)
      ELSE IF adapter.det
      THEN {ProposeLoop(candidate, components, cs, [c \in cs |-> <<" ", "b", " ">>])}
      ELSE {ProposeLoop(candidate, components, we, lm) :
              we \in (IF adapter.examples THEN {cs} ELSE SUBSET cs),
              lm \in [cs -> LMOutputs]}

\* the bound of the model on runs without an iteration cap
Truncated == options.maxIterations = Undefined /\ iteration >= IterCap

Reflect ==
  /\ pc = "reflect"
  /\ ~Truncated
  /\ LET parent == candidates[parentIdx + 1]
         componentsToUpdate == selectComponents(parent.candidate, iteration)
     IN  /\ \E resp \in Responses(minibatch, parent.candidate) :
               /\ totalMetricCalls' = totalMetricCalls + Len(minibatch)
               /\ totalCostUSD' = totalCostUSD + CostOf(resp)
               /\ Audit(Len(minibatch), ReportedCost(resp))
         /\ \E c \in Proposals(parent.candidate, componentsToUpdate) :
               newCandidate' = c
  /\ pc' = "evalParent"
  /\ UNCHANGED <<options, adapter, ref, call, picks, iteration, rngState, sampler, candidates,
                 perInstanceScores, stagnation, history, parentIdx, minibatch,
                 parentMinibatchSum, childMinibatchSum, checkpoint, archiveLog,
                 result, run>>

(***************************************************************************)
(* Parent and child on the minibatch, acceptance, the end of the pass      *)
(***************************************************************************)
\* the second evaluation of the parent adds no cost: the gate has charged
\* the same parent on the same minibatch
ParentRecheckFree(resp) == 0

\* the cost the second evaluation of the parent adds: all of it, whatever
\* the gate already added for the same parent on the same minibatch
ParentRecheckCost(resp) == CostOf(resp)

EvalParent ==
  /\ pc = "evalParent"
  /\ \E resp \in Responses(minibatch, candidates[parentIdx + 1].candidate) :
       /\ totalCostUSD' = totalCostUSD + ParentRecheckCost(resp)
       /\ UNCHANGED totalMetricCalls
       /\ Audit(Len(minibatch), ReportedCost(resp))
       /\ parentMinibatchSum' = SumSeq(resp.scores)
  /\ pc' = "evalChild"
  /\ UNCHANGED <<options, adapter, ref, call, picks, iteration, rngState,
                 sampler, candidates, perInstanceScores, stagnation, history,
                 parentIdx, minibatch, newCandidate, childMinibatchSum,
                 checkpoint, archiveLog, result, run>>

\* the acceptance test with >= for >
AcceptedOnTie(childSum, parentSum) == childSum >= parentSum + tieEpsilon

\* const accepted = childMinibatchSum > parentMinibatchSum + this.tieEpsilon
Accepted(childSum, parentSum) == childSum > parentSum + tieEpsilon

\* the early-stopping test with > for >=
StagnationStopLate(stag) == stag > earlyStoppingTrials

\* if (stagnation >= earlyStoppingTrials) break
StagnationStop(stag) == stag >= earlyStoppingTrials

\* the new record is put in front of the archive
ArchiveUnshift(cands, entry) == <<entry>> \o cands

\* candidates.push(newCandidateEntry)
ArchivePush(cands, entry) == Append(cands, entry)

\* the accepted child's row of instance scores is not stored
ScoresPushDropped(pis, row) == pis

\* perInstanceScores.push(childEval.instanceScores)
ScoresPush(pis, row) == Append(pis, row)

\* iteration % this.checkpointEveryIterations === 0
CheckpointDue(it) == it % options.checkpointEveryIterations = 0

\* every record says the child was accepted
HistoryRecordAlwaysAccepted(accepted, cands) ==
  [iteration |-> iteration, candidate |-> newCandidate,
   scores |-> cands[Len(cands)].scores, accepted |-> TRUE]

\* the record pushed on this.history: { iteration, candidate: newCandidate,
\* scores: accepted ? candidates[candidates.length - 1].scores : {}, accepted }
HistoryRecord(accepted, cands) ==
  [iteration |-> iteration, candidate |-> newCandidate,
   scores |-> IF accepted THEN cands[Len(cands)].scores ELSE <<>>,
   accepted |-> accepted]

\* from the history record to the early-stopping test, for the archive,
\* the score matrix and the stagnation counter the pass ends with
EndOfPass(accepted, cands, pis, stag, calls, cost) ==
  /\ history' = Append(history, HistoryRecord(accepted, cands))
  /\ IF options.persist
     THEN /\ archiveLog' = appendArchive(archiveLog, iteration,
                             IF accepted THEN "accepted" ELSE "rejected")
          /\ checkpoint' = IF CheckpointDue(iteration)
                           THEN saveCheckpoint(CheckpointState(iteration, calls, cost,
                                                               rngState, cands, pis))
                           ELSE checkpoint
     ELSE UNCHANGED <<archiveLog, checkpoint>>
  /\ pc' = IF StagnationStop(stag) THEN "final" ELSE "loop"
  /\ LeavePass

EvalChild ==
  /\ pc = "evalChild"
  /\ \E resp \in Responses(minibatch, newCandidate) :
       /\ totalCostUSD' = totalCostUSD + CostOf(resp)
       /\ UNCHANGED totalMetricCalls
       /\ Audit(Len(minibatch), ReportedCost(resp))
       /\ childMinibatchSum' = SumSeq(resp.scores)
  /\ pc' = "decide"
  /\ UNCHANGED <<options, adapter, ref, call, picks, iteration, rngState,
                 sampler, candidates, perInstanceScores, stagnation, history,
                 parentIdx, minibatch, newCandidate, parentMinibatchSum,
                 checkpoint, archiveLog, result, run>>

\* the acceptance test; a rejected child ends the pass
Decide ==
  /\ pc = "decide"
  /\ IF Accepted(childMinibatchSum, parentMinibatchSum)
     THEN /\ pc' = "evalVal"
          /\ UNCHANGED <<stagnation, history, archiveLog, checkpoint, parentIdx,
                         minibatch, newCandidate, parentMinibatchSum,
                         childMinibatchSum>>
     ELSE /\ stagnation' = stagnation + 1
          /\ EndOfPass(FALSE, candidates, perInstanceScores, stagnation + 1,
                       totalMetricCalls, totalCostUSD)
  /\ UNCHANGED <<options, adapter, ref, call, picks, iteration, totalMetricCalls, totalCostUSD,
                 rngState, sampler, candidates, perInstanceScores, result,
                 uncharged, unbilled, run>>

\* the accepted child: full evaluation on the validation set, then the push
\* the child is recorded as its own parent
ChildRecordOwnParent(childEval) ==
  [candidate |-> newCandidate, scores |-> childEval.scores,
   scalarScore |-> childEval.scalarScore, parent |-> Len(candidates)]

\* the record pushed for an accepted child: { candidate: newCandidate,
\* scores, scalarScore, parent: parentIdx }
ChildRecord(childEval) ==
  [candidate |-> newCandidate, scores |-> childEval.scores,
   scalarScore |-> childEval.scalarScore, parent |-> parentIdx]

AcceptChild ==
  /\ pc = "evalVal"
  /\ \E resp \in Responses(validationSet, newCandidate) :
       LET childEval == CandidateEval(resp)
           calls == totalMetricCalls + Len(validationSet)
           cost  == totalCostUSD + CostOf(resp)
           cands == ArchivePush(candidates, ChildRecord(childEval))
           pis   == ScoresPush(perInstanceScores, childEval.instanceScores)
       IN  /\ totalMetricCalls' = calls
           /\ totalCostUSD' = cost
           /\ Audit(Len(validationSet), ReportedCost(resp))
           /\ candidates' = cands
           /\ perInstanceScores' = pis
           /\ stagnation' = 0
           /\ EndOfPass(TRUE, cands, pis, 0, calls, cost)
  /\ UNCHANGED <<options, adapter, ref, call, picks, iteration, rngState, sampler, result, run>>

(***************************************************************************)
(* After the loop                                                          *)
(***************************************************************************)
Finalize ==
  /\ pc = "final"
  /\ LET paretoFront == buildParetoFront(FrontInput(candidates), tieEpsilon)
         bestIdx == BestIndex([i \in 1..Len(candidates) |-> candidates[i].scalarScore])
     IN  result' = [bestCandidate |-> candidates[bestIdx + 1].candidate,
                    bestScore |-> candidates[bestIdx + 1].scalarScore,
                    paretoFront |-> [i \in 1..Len(paretoFront) |->
                                       candidates[paretoFront[i].idx + 1]],
                    iterations |-> iteration,
                    totalMetricCalls |-> totalMetricCalls,
                    history |-> history,
                    totalCostUSD |-> totalCostUSD]
  /\ IF options.persist
     THEN /\ archiveLog' = appendArchive(archiveLog, iteration, "finish")
          /\ checkpoint' = saveCheckpoint(
                             CheckpointState(iteration, totalMetricCalls, totalCostUSD,
                                             rngState, candidates, perInstanceScores))
     ELSE UNCHANGED <<archiveLog, checkpoint>>
  /\ pc' = "done"
  /\ UNCHANGED <<options, adapter, ref, call, picks, iteration, totalMetricCalls, totalCostUSD,
                 rngState, sampler, candidates, perInstanceScores, stagnation,
                 history, parentIdx, minibatch, newCandidate,
                 parentMinibatchSum, childMinibatchSum, uncharged, unbilled, run>>

(***************************************************************************)
(* Processes: the first one, and one launched again on the same directory  *)
(***************************************************************************)
\* the number of processes launched one after the other
MaxRuns == 2

\* which of the three stopping budgets are configured
Budgets ==
  {[maxMetricCalls |-> c, maxBudgetUSD |-> b, maxIterations |-> i] :
     c \in {Undefined, MaxCalls}, b \in {Undefined, MaxBudget}, i \in {Undefined, MaxIter}}

OptionsOf(b, skip, strategy, selector, persist) ==
  [maxMetricCalls |-> b.maxMetricCalls, maxBudgetUSD |-> b.maxBudgetUSD,
   maxIterations |-> b.maxIterations, skipPerfectScore |-> skip,
   strategy |-> strategy, componentSelector |-> selector, seed |-> 0,
   hasValset |-> TRUE, persist |-> persist, resume |-> persist,
   checkpointEveryIterations |-> 2, hasAdapter |-> TRUE, taskLM |-> "undefined",
   reflectionLM |-> TRUE]

\* an adapter that may answer anything on every call
FreeAdapter(metrics, examples, hasPropose) ==
  [det |-> FALSE, metrics |-> metrics, examples |-> examples,
   hasPropose |-> hasPropose, score |-> <<>>]

\* a deterministic adapter: the score of an instance of the training set
\* is a function of the candidate's signature and the instance
DetAdapters ==
  {[det |-> TRUE, metrics |-> FALSE, examples |-> TRUE, hasPropose |-> FALSE,
    score |-> t] :
     t \in [0..Len(seedCandidate) -> [0..(TrainSize - 1) -> ScoreValues]]}

\* options.maxIterations of the long runs: room for an accepted child
\* followed by earlyStoppingTrials rejected ones
LongIter == 6

\* the runs explored with an adapter free to answer anything: every choice
\* of budgets with an adapter that reports no metrics,
BudgetRuns ==
  {[options |-> OptionsOf(b, skip, "current_best", "round_robin", FALSE),
    adapter |-> FreeAdapter(FALSE, TRUE, FALSE)] : b \in Budgets, skip \in BOOLEAN}

\* the instance-front strategy and persistence under an iteration cap, with
\* an adapter that reports latency and cost,
MeteredRuns ==
  {[options |-> OptionsOf([maxMetricCalls |-> Undefined, maxBudgetUSD |-> b,
                           maxIterations |-> MaxIter], TRUE, "pareto", "round_robin", TRUE),
    adapter |-> FreeAdapter(TRUE, TRUE, FALSE)] : b \in {Undefined, MaxBudget}}

\* and long runs on the training set alone with the deterministic adapters
LongRuns ==
  {[options |-> [OptionsOf([maxMetricCalls |-> Undefined, maxBudgetUSD |-> Undefined,
                            maxIterations |-> LongIter], FALSE, "current_best",
                           "round_robin", FALSE) EXCEPT !.hasValset = FALSE],
    adapter |-> a] : a \in DetAdapters}

Runs == BudgetRuns \cup MeteredRuns \cup LongRuns

\* the state before new GEPA(options), for the runs given
InitOf(runs) ==
  /\ \E r \in runs : options = r.options /\ adapter = r.adapter
  /\ run = 1
  /\ pc = "new"
  /\ iteration = 0
  /\ totalMetricCalls = 0
  /\ totalCostUSD = 0
  /\ rngState = SeedState(0)
  /\ sampler = NewSampler(TrainSize)
  /\ candidates = <<>>
  /\ perInstanceScores = <<>>
  /\ stagnation = 0
  /\ history = <<>>
  /\ parentIdx = 0
  /\ minibatch = <<>>
  /\ newCandidate = <<>>
  /\ parentMinibatchSum = 0
  /\ childMinibatchSum = 0
  /\ result = NoRecord
  /\ uncharged = 0
  /\ unbilled = 0
  /\ checkpoint = NoRecord
  /\ archiveLog = <<>>
  /\ picks = <<>>
  /\ ref = NoRecord

Init == InitOf(Runs) /\ call = NoRecord

\* a new process, before new GEPA(options)
NewProcess ==
  /\ run' = run + 1
  /\ pc' = "new"
  /\ iteration' = 0
  /\ totalMetricCalls' = 0
  /\ totalCostUSD' = 0
  /\ rngState' = SeedState(0)
  /\ sampler' = NewSampler(TrainSize)
  /\ candidates' = <<>>
  /\ perInstanceScores' = <<>>
  /\ stagnation' = 0
  /\ history' = <<>>
  /\ parentIdx' = 0
  /\ minibatch' = <<>>
  /\ newCandidate' = <<>>
  /\ parentMinibatchSum' = 0
  /\ childMinibatchSum' = 0
  /\ result' = NoRecord
  /\ uncharged' = 0
  /\ unbilled' = 0
  /\ picks' = <<>>

\* the process has returned; the same program is started again on the same
\* persistence directory
Relaunch ==
  /\ pc = "done"
  /\ run < MaxRuns
  /\ options.persist
  /\ NewProcess
  /\ UNCHANGED <<options, adapter, ref, call, checkpoint, archiveLog>>

\* the steps of one process that starts without a checkpoint
NextRun ==
  \/ Construct
  \/ StartFresh
  \/ LoopHead
  \/ Gate
  \/ Reflect
  \/ EvalParent
  \/ EvalChild
  \/ Decide
  \/ AcceptChild
  \/ Finalize

Next ==
  \/ NextRun
  \/ StartResumed
  \/ Relaunch

Spec == Init /\ [][Next]_vars

(***************************************************************************)
(* Comparing runs: the same run twice, then interrupted and resumed        *)
(***************************************************************************)
\* options.maxIterations of the runs compared
ResumeIter == 3

\* the runs compared: the instance-front strategy, which draws from the
\* RNG, on the training set alone with the deterministic adapters
ComparedRuns ==
  {[options |-> [OptionsOf([maxMetricCalls |-> Undefined, maxBudgetUSD |-> Undefined,
                            maxIterations |-> ResumeIter], TRUE, "pareto",
                           "round_robin", FALSE) EXCEPT !.hasValset = FALSE],
    adapter |-> a] : a \in DetAdapters}

\* the first process has returned: what it ended with is kept, and a second
\* process is started with the same options, adapter and reflection model
Again ==
  /\ pc = "done"
  /\ run = 1
  /\ ref' = [archive |-> candidates, best |-> result.bestCandidate, picks |-> picks]
  /\ NewProcess
  /\ UNCHANGED <<options, adapter, checkpoint, archiveLog, call>>

\* a third process is started on an empty persistence directory with an
\* iteration cap k of at most ResumeIter
Interrupted ==
  /\ pc = "done"
  /\ run = 2
  /\ \E k \in 0..ResumeIter :
       options' = [options EXCEPT !.maxIterations = k, !.persist = TRUE,
                                  !.resume = TRUE]
  /\ checkpoint' = NoRecord
  /\ archiveLog' = <<>>
  /\ NewProcess
  /\ UNCHANGED <<adapter, ref, call>>

\* it has returned and written its checkpoint: a fourth process is started
\* on the same directory with resume enabled and the cap ResumeIter
Resumed ==
  /\ pc = "done"
  /\ run = 3
  /\ options' = [options EXCEPT !.maxIterations = ResumeIter]
  /\ NewProcess
  /\ UNCHANGED <<adapter, ref, checkpoint, archiveLog, call>>

NextCompared ==
  \/ NextRun
  \/ StartResumed
  \/ Again
  \/ Interrupted
  \/ Resumed

InitResume == InitOf(ComparedRuns) /\ call = NoRecord

SpecResume == InitResume /\ [][NextCompared]_vars

\* optimize() has not returned, the constructor has not thrown, and the run
\* is within what the model explores
Running == pc \notin {"done", "error"} /\ ~(pc = "reflect" /\ Truncated)

\* the process moves on: every step of NextRun leaves its place in the code
Advance ==
  /\ Running
  /\ pc' \in {"start", "error", "loop", "gate", "reflect", "evalParent",
             "evalChild", "decide", "evalVal", "final", "done"}

\* one process that is never left waiting: every adapter call and every
\* reflection-model call returns, and the event loop then runs the
\* continuation of the await
InitLive == InitOf(BudgetRuns) /\ call = NoRecord

SpecLive == InitLive /\ [][NextRun]_vars /\ WF_pc(Advance)

(***************************************************************************)
(* The functions of the library, called on their own                       *)
(***************************************************************************)
\* the objectives a score vector may have
Objectives == {"correctness", "latency"}
\* the scores of the vectors are between -MaxScoreValue and MaxScoreValue
MaxScoreValue == 1
\* the lists of candidates have up to FrontLen members
FrontLen == 3
\* tieEpsilon is between 0 and MaxEpsilon
MaxEpsilon == 1

\* score vectors: any subset of the objectives, any value on each
ScoreVectors ==
  UNION {[K -> (0 - MaxScoreValue)..MaxScoreValue] : K \in SUBSET Objectives}

\* the lists buildParetoFront is called on: idx is the position in the list
CandidateLists ==
  UNION {{[i \in 1..n |-> [idx |-> i - 1, scores |-> v[i]]] : v \in [1..n -> ScoreVectors]} :
           n \in 0..FrontLen}

\* no optimizer runs
NoRun ==
  InitOf({[options |-> OptionsOf([maxMetricCalls |-> Undefined, maxBudgetUSD |-> Undefined,
                                  maxIterations |-> Undefined], TRUE, "current_best",
                                 "round_robin", FALSE),
           adapter |-> FreeAdapter(FALSE, TRUE, FALSE)]})

InitPareto ==
  /\ NoRun
  /\ \E cands \in CandidateLists, eps \in 0..MaxEpsilon :
       call = [candidates |-> cands, tieEpsilon |-> eps, returned |-> FALSE,
               paretoFront |-> <<>>]

\* paretoFront = buildParetoFront(candidates, tieEpsilon)
CallBuildParetoFront ==
  /\ ~call.returned
  /\ call' = [call EXCEPT !.returned = TRUE,
                          !.paretoFront = buildParetoFront(call.candidates,
                                                           call.tieEpsilon)]
  /\ UNCHANGED <<options, adapter, pc, iteration, totalMetricCalls, totalCostUSD,
                 rngState, sampler, candidates, perInstanceScores, stagnation,
                 history, parentIdx, minibatch, newCandidate, parentMinibatchSum,
                 childMinibatchSum, checkpoint, archiveLog, result, uncharged,
                 unbilled, run, picks, ref>>

SpecPareto == InitPareto /\ [][CallBuildParetoFront]_vars


(***************************************************************************)
(* Properties of the optimization loop                                     *)
(***************************************************************************)
\* C1: in a pass that reaches the acceptance test the child is accepted
\* exactly when the sum of its minibatch scores exceeds the parent's sum
\* (tieEpsilon is 0); an accepted child adds exactly one record, whose
\* parent is the selected parent index, and sets the stagnation counter to
\* 0; a rejected child, a tie included, leaves the archive as it is and
\* adds exactly 1 to the stagnation counter
AcceptanceRule ==
  [][/\ pc = "decide" =>
          IF childMinibatchSum > parentMinibatchSum + 0
          THEN pc' = "evalVal" /\ UNCHANGED <<candidates, stagnation>>
          ELSE /\ pc' # "evalVal"
               /\ candidates' = candidates
               /\ stagnation' = stagnation + 1
     /\ pc' = "evalVal" => pc = "decide"
     /\ pc = "evalVal" =>
          /\ childMinibatchSum > parentMinibatchSum + 0
          /\ Len(candidates') = Len(candidates) + 1
          /\ SubSeq(candidates', 1, Len(candidates)) = candidates
          /\ candidates'[Len(candidates')].parent = parentIdx
          /\ candidates'[Len(candidates')].candidate = newCandidate
          /\ stagnation' = 0]_vars

\* an earlier child was accepted, and the child at the acceptance test ties
\* with its parent on a minibatch the parent does not fail
AcceptanceRuleWitness ==
  /\ pc = "decide"
  /\ Len(candidates) >= 2
  /\ childMinibatchSum = parentMinibatchSum
  /\ parentMinibatchSum > 0

\* C2 as stated: an optimizer constructed with at least one of the three
\* budgets eventually returns from optimize(), whatever the adapter answers
\* (or the run goes past what the model explores of runs without an
\* iteration cap)
TerminatesWithAnyBudget ==
  (pc = "new" /\ HasStoppingCriterion(options))
    ~> (pc = "done" \/ (pc = "reflect" /\ Truncated))

\* C2, amended: an optimizer constructed with maxIterations eventually
\* leaves the loop and returns from optimize(), whatever the adapter answers
TerminatesWithIterationCap ==
  (pc = "new" /\ options.maxIterations # Undefined) ~> (pc = "done")

\* the iteration cap alone ended a run whose parent was perfect on every
\* minibatch
TerminatesWithIterationCapWitness ==
  /\ pc = "done"
  /\ options.maxIterations # Undefined
  /\ options.maxMetricCalls = Undefined
  /\ options.maxBudgetUSD = Undefined
  /\ options.skipPerfectScore
  /\ iteration = options.maxIterations + 1
  /\ history = <<>>

\* C3: the stagnation counter is the number of rejections since the last
\* acceptance of this optimize() call, it never exceeds 5, and once it is 5
\* the loop has been left: nothing is selected, reflected on or evaluated
StagnationStops ==
  LET rejectedSince(h) ==
        Cardinality({i \in 1..Len(h) :
                       \A j \in i..Len(h) : ~h[j].accepted})
  IN  /\ stagnation <= 5
      /\ stagnation = rejectedSince(history)
      /\ stagnation = 5 => pc \in {"final", "done"}

\* a child was accepted and the five that followed were rejected
StagnationStopsWitness ==
  /\ pc = "final"
  /\ stagnation = 5
  /\ Len(candidates) >= 2
  /\ Len(history) >= 6

\* C4: with the same seed and the same deterministic adapter and reflection
\* model, the process resumed under the cap n from the checkpoint of a run
\* under a cap k <= n ends with the archive of the uninterrupted run under n
ResumeEquivalence ==
  (run = 4 /\ pc = "done") => candidates = ref.archive

FrontIsAntichain ==
  call.returned =>
    \A i, j \in 1..Len(call.paretoFront) :
      i # j => checkDominance(call.paretoFront[i].scores,
                              call.paretoFront[j].scores, call.tieEpsilon) = 0

\* with a positive epsilon, a list of three of which one was taken off the
\* front by a later one
FrontIsAntichainWitness ==
  /\ call.returned
  /\ call.tieEpsilon > 0
  /\ Len(call.candidates) = 3
  /\ Len(call.paretoFront) = 2
  /\ call.paretoFront[2].dominated # <<>>

\* C6: once optimize() has initialised the archive, from the seed or from a
\* checkpoint, the archive is not empty and the score matrix has one row
\* per record; an accepted child adds one record and one row, and no other
\* step of the loop adds or removes any
LockstepArchive ==
  [][/\ pc' \notin {"new", "start", "error"} =>
          /\ Len(candidates') >= 1
          /\ Len(perInstanceScores') = Len(candidates')
     /\ pc = "evalVal" =>
          /\ Len(candidates') = Len(candidates) + 1
          /\ Len(perInstanceScores') = Len(perInstanceScores) + 1
     /\ pc \in {"loop", "gate", "reflect", "evalParent", "evalChild", "decide", "final"} =>
          /\ Len(candidates') = Len(candidates)
          /\ Len(perInstanceScores') = Len(perInstanceScores)]_vars

\* a process resumed from a checkpoint that holds the seed and two
\* accepted children
LockstepArchiveWitness ==
  /\ run = 2
  /\ pc = "final"
  /\ Len(candidates) = 3
  /\ Len(perInstanceScores) = 3

\* C7: within a process the archive only grows at its end: a stored record
\* stays the same at the same index; and in a process that started without
\* a checkpoint record 0 holds options.seedCandidate
ArchiveAppendOnly ==
  [][/\ pc # "done" =>
          /\ Len(candidates') >= Len(candidates)
          /\ SubSeq(candidates', 1, Len(candidates)) = candidates
     /\ (run' = 1 /\ candidates' # <<>>) =>
          candidates'[1].candidate = seedCandidate]_vars

\* two children were accepted after the seed
ArchiveAppendOnlyWitness ==
  /\ run = 1
  /\ Len(candidates) = 3
  /\ candidates[1].candidate = seedCandidate
  /\ candidates[3].candidate # seedCandidate

\* C8: totalMetricCalls counts every instance passed to adapter.evaluate:
\* nothing evaluated is left uncharged
EveryEvaluationCharged == uncharged = 0

\* C9: every cost_usd an evaluation returns is added to totalCostUSD, the
\* gate's evaluation of the parent and the second evaluation of the same
\* parent included; within a process totalCostUSD never decreases; and a
\* pass that starts with totalCostUSD >= maxBudgetUSD leaves the loop
CostCharged ==
  [][/\ unbilled' = 0
     /\ pc # "done" => totalCostUSD' >= totalCostUSD
     /\ (pc = "loop" /\ options.maxBudgetUSD # Undefined
           /\ totalCostUSD >= options.maxBudgetUSD) => pc' = "final"]_vars

\* the loop was left on the cost budget after passes that went through the
\* gate and evaluated the parent a second time
CostChargedWitness ==
  /\ pc = "final"
  /\ options.skipPerfectScore
  /\ options.maxBudgetUSD # Undefined
  /\ totalCostUSD >= options.maxBudgetUSD
  /\ Len(history) >= 1
  /\ iteration <= options.maxIterations

(***************************************************************************)
(* buildParetoFront on a list and on the same list in another order        *)
(***************************************************************************)
\* the variables of the optimizer, which a call of a library function on
\* its own leaves alone
runVars == <<options, adapter, pc, iteration, totalMetricCalls, totalCostUSD,
             rngState, sampler, candidates, perInstanceScores, stagnation,
             history, parentIdx, minibatch, newCandidate, parentMinibatchSum,
             childMinibatchSum, checkpoint, archiveLog, result, uncharged,
             unbilled, run, picks, ref>>

\* the orders a list of n members can be put in
Orders(n) ==
  {p \in [1..n -> 1..n] : \A i, j \in 1..n : i # j => p[i] # p[j]}

\* the same members, each with its idx, in the order p
Reordered(cands, p) == [i \in 1..Len(cands) |-> cands[p[i]]]

InitOrder ==
  /\ NoRun
  /\ \E cands \in CandidateLists, eps \in 0..MaxEpsilon :
       \E p \in Orders(Len(cands)) :
         call = [candidates |-> cands, reordered |-> Reordered(cands, p),
                 tieEpsilon |-> eps, returned |-> FALSE,
                 paretoFront |-> <<>>, reorderedFront |-> <<>>]

\* buildParetoFront(candidates, tieEpsilon) and
\* buildParetoFront(reordered, tieEpsilon)
CallBuildParetoFrontTwice ==
  /\ ~call.returned
  /\ call' = [call EXCEPT !.returned = TRUE,
                          !.paretoFront = buildParetoFront(call.candidates,
                                                           call.tieEpsilon),
                          !.reorderedFront = buildParetoFront(call.reordered,
                                                              call.tieEpsilon)]
  /\ UNCHANGED runVars

SpecOrder == InitOrder /\ [][CallBuildParetoFrontTwice]_vars

\* the idx of the members of a front
Survivors(front) == {front[i].idx : i \in 1..Len(front)}

\* C11: every member of the list that buildParetoFront leaves out of the
\* list it returns is dominated, with the epsilon of the call, by a member
\* of the returned list
ExcludedAreDominated ==
  call.returned =>
    \A i \in 1..Len(call.candidates) :
      call.candidates[i].idx \notin Survivors(call.paretoFront) =>
        \E j \in 1..Len(call.paretoFront) :
          checkDominance(call.paretoFront[j].scores, call.candidates[i].scores,
                         call.tieEpsilon) = 1

\* C12: the set of idx buildParetoFront returns for a list is the set it
\* returns for the same list in any other order
SurvivorsOrderIndependent ==
  call.returned => Survivors(call.paretoFront) = Survivors(call.reorderedFront)

(***************************************************************************)
(* checkDominance on two score vectors                                     *)
(***************************************************************************)
InitDominance ==
  /\ NoRun
  /\ \E a \in ScoreVectors, b \in ScoreVectors, eps \in 0..MaxEpsilon :
       call = [a |-> a, b |-> b, epsilon |-> eps, returned |-> FALSE,
               dominance |-> 0, mirrored |-> 0]

\* checkDominance(a, b, epsilon) and checkDominance(b, a, epsilon)
CallCheckDominance ==
  /\ ~call.returned
  /\ call' = [call EXCEPT !.returned = TRUE,
                          !.dominance = checkDominance(call.a, call.b, call.epsilon),
                          !.mirrored = checkDominance(call.b, call.a, call.epsilon)]
  /\ UNCHANGED runVars

SpecDominance == InitDominance /\ [][CallCheckDominance]_vars

\* C13: checkDominance(a, b, epsilon) is 1 exactly when a is better than b
\* by more than epsilon on a key of either and b is better than a by more
\* than epsilon on none, a missing key counting as 0; it is -1 in the
\* mirrored case and 0 otherwise; and it is minus checkDominance(b, a, epsilon)
DominanceRule ==
  call.returned =>
    LET keys == (DOMAIN call.a) \cup (DOMAIN call.b)
        va(k) == IF k \in DOMAIN call.a THEN call.a[k] ELSE 0
        vb(k) == IF k \in DOMAIN call.b THEN call.b[k] ELSE 0
        aBetter == \E k \in keys : va(k) > vb(k) + call.epsilon
        bBetter == \E k \in keys : vb(k) > va(k) + call.epsilon
    IN  /\ (call.dominance = 1) = (aBetter /\ ~bBetter)
        /\ (call.dominance = 0 - 1) = (bBetter /\ ~aBetter)
        /\ call.dominance \in {0 - 1, 0, 1}
        /\ call.dominance = 0 - call.mirrored

\* a dominates b only on a key that a does not have: its 0 is more than
\* epsilon above the value b has there
DominanceRuleWitness ==
  /\ call.returned
  /\ call.dominance = 1
  /\ \E k \in (DOMAIN call.b) \ (DOMAIN call.a) : 0 > call.b[k] + call.epsilon
  /\ \A k \in DOMAIN call.a : k \in DOMAIN call.b => call.a[k] <= call.b[k]

(***************************************************************************)
(* hypervolume2D                                                           *)
(***************************************************************************)
\* a point is a Record<string, number>: its keys in insertion order, each
\* with its value, as a sequence of [k, v]
\* Object.keys(point)
PointKeys(point) == [i \in 1..Len(point) |-> point[i].k]

\* point[key] ?? 0
PointGet(point, key) ==
  IF \E i \in 1..Len(point) : point[i].k = key
  THEN point[CHOOSE i \in 1..Len(point) : point[i].k = key].v
  ELSE 0

\* Math.min(...points.map(p => p[obj] ?? 0))
MinOf(points, obj) ==
  CHOOSE m \in {PointGet(points[i], obj) : i \in 1..Len(points)} :
    \A i \in 1..Len(points) : m <= PointGet(points[i], obj)

\* referencePoint?.[obj] ?? Math.min(...) - 1; no referencePoint is the
\* function with no key
ReferenceOf(referencePoint, points, obj) ==
  IF obj \in DOMAIN referencePoint THEN referencePoint[obj]
  ELSE MinOf(points, obj) - 1

\* the points are kept in the order they are given
Unsorted(points, obj) == points

\* [...points].sort((a, b) => (b[obj] ?? 0) - (a[obj] ?? 0)): descending,
\* points with the same value stay in the order they had
RECURSIVE SortDescending(_, _)
SortDescending(points, obj) ==
  IF points = <<>> THEN <<>>
  ELSE LET first == CHOOSE i \in 1..Len(points) :
                      /\ \A j \in 1..Len(points) :
                           PointGet(points[i], obj) >= PointGet(points[j], obj)
                      /\ \A j \in 1..(i - 1) :
                           PointGet(points[j], obj) # PointGet(points[i], obj)
       IN  <<points[first]>> \o
           SortDescending([j \in 1..(Len(points) - 1) |->
                             IF j < first THEN points[j] ELSE points[j + 1]], obj)

\* the loop over the sorted points; st = [volume, prevY]
RECURSIVE Sweep(_, _, _, _, _)
Sweep(st, sorted, obj1, obj2, ref1) ==
  IF sorted = <<>> THEN st.volume
  ELSE Sweep(IF PointGet(Head(sorted), obj1) > ref1
                  /\ PointGet(Head(sorted), obj2) > st.prevY
             THEN [volume |-> st.volume + (PointGet(Head(sorted), obj1) - ref1)
                                          * (PointGet(Head(sorted), obj2) - st.prevY),
                   prevY |-> PointGet(Head(sorted), obj2)]
             ELSE st,
             Tail(sorted), obj1, obj2, ref1)

\* the result of hypervolume2D: a number, or null
Number(n) == [isNull |-> FALSE, value |-> n]
Null == [isNull |-> TRUE, value |-> 0]

\* the two-objective part of hypervolume2D, keys being Object.keys(points[0])
Staircase(points, referencePoint, keys) ==
  Number(Sweep([volume |-> 0,
                prevY |-> ReferenceOf(referencePoint, points, keys[2])],
               SortDescending(points, keys[1]), keys[1], keys[2],
               ReferenceOf(referencePoint, points, keys[1])))

hypervolume2D(points, referencePoint) ==
  IF Len(points) = 0 THEN Number(0)
  ELSE IF Len(PointKeys(points[1])) # 2 THEN Null
  ELSE Staircase(points, referencePoint, PointKeys(points[1]))

\* the coordinates of the points are between 0 and HvMaxValue
HvMaxValue == 2
\* the point sets have up to HvLen points
HvLen == 2
\* the objectives of the points of any shape
HvObjectives == {"correctness", "latency", "cost"}

\* the sequences of n different keys
KeyOrders(keys, n) ==
  {ks \in [1..n -> keys] : \A i, j \in 1..n : i # j => ks[i] # ks[j]}

\* the points with the keys ks, in that order, and values from vals
PointsOver(ks, vals) ==
  {[i \in 1..Len(ks) |-> [k |-> ks[i], v |-> w[i]]] : w \in [1..Len(ks) -> vals]}

\* points of any shape: no key, one, two or three, with values 0 and 1
AnyPoints ==
  UNION {PointsOver(ks, {0, 1}) :
           ks \in UNION {KeyOrders(HvObjectives, n) : n \in 0..3}}

\* two-objective points, the two keys in either order
PlanePoints ==
  UNION {PointsOver(ks, 0..HvMaxValue) : ks \in KeyOrders(Objectives, 2)}

\* the lists of up to HvLen points of a set
ListsOf(points) == UNION {[1..n -> points] : n \in 0..HvLen}

\* the explicit reference point, and no reference point
HvReferences == {[k \in Objectives |-> 0], [k \in {} |-> 0]}

\* a call on points of any shape, or a call on two-objective points and a
\* second one on the same points and one more
InitHypervolume ==
  /\ NoRun
  /\ \E r \in HvReferences :
       \/ \E ps \in ListsOf(AnyPoints) :
            call = [points |-> ps, extended |-> ps, referencePoint |-> r,
                    twice |-> FALSE, returned |-> FALSE,
                    volume |-> Null, volumeExtended |-> Null]
       \/ \E ps \in ListsOf(PlanePoints), q \in PlanePoints :
            call = [points |-> ps, extended |-> Append(ps, q), referencePoint |-> r,
                    twice |-> TRUE, returned |-> FALSE,
                    volume |-> Null, volumeExtended |-> Null]

\* hypervolume2D(points, referencePoint)
CallHypervolume2D ==
  /\ ~call.returned
  /\ ~call.twice
  /\ call' = [call EXCEPT !.returned = TRUE,
                          !.volume = hypervolume2D(call.points, call.referencePoint)]
  /\ UNCHANGED runVars

\* hypervolume2D(points, referencePoint), then
\* hypervolume2D([...points, q], referencePoint)
CallHypervolume2DTwice ==
  /\ ~call.returned
  /\ call.twice
  /\ call' = [call EXCEPT !.returned = TRUE,
                          !.volume = hypervolume2D(call.points, call.referencePoint),
                          !.volumeExtended = hypervolume2D(call.extended,
                                                           call.referencePoint)]
  /\ UNCHANGED runVars

NextHypervolume == CallHypervolume2D \/ CallHypervolume2DTwice

SpecHypervolume == InitHypervolume /\ [][NextHypervolume]_vars

\* C14: hypervolume2D returns 0 for no point, null when some point of the
\* set, the first or another, has a number of keys other than two, and a
\* number otherwise
NullUnlessAllTwoKeys ==
  (call.returned /\ ~call.twice) =>
     IF call.points = <<>> THEN call.volume = Number(0)
     ELSE call.volume.isNull =
            (\E i \in 1..Len(call.points) : Len(call.points[i]) # 2)

\* C15: for two-objective points, adding a point that no point of the set
\* dominates does not lower hypervolume2D, with the default reference point
\* and with the explicit one; and with the explicit reference point the
\* result is the area of the union of the rectangles between the reference
\* corner and the points (counted in unit cells)
HypervolumeMonotone ==
  (call.returned /\ call.twice) =>
     LET vector(p) == [k \in Objectives |-> PointGet(p, k)]
         q == call.extended[Len(call.extended)]
         r == call.referencePoint
         cells(ps) ==
           {c \in (0..HvMaxValue) \X (0..HvMaxValue) :
              \E i \in 1..Len(ps) :
                /\ r["correctness"] <= c[1] /\ c[1] < PointGet(ps[i], "correctness")
                /\ r["latency"] <= c[2] /\ c[2] < PointGet(ps[i], "latency")}
     IN  /\ ~call.volume.isNull /\ ~call.volumeExtended.isNull
         /\ (\A i \in 1..Len(call.points) :
               checkDominance(vector(call.points[i]), vector(q), 0) # 1)
              => call.volumeExtended.value >= call.volume.value
         /\ DOMAIN r = Objectives =>
              /\ call.volume.value = Cardinality(cells(call.points))
              /\ call.volumeExtended.value = Cardinality(cells(call.extended))

\* with the explicit reference point, two points of which neither dominates
\* the other, given in increasing order of the first objective so that the
\* sort moves them, and a third that adds to the area
HypervolumeMonotoneWitness ==
  LET k1 == PointKeys(call.extended[1])[1]
      k2 == PointKeys(call.extended[1])[2]
  IN  /\ call.returned /\ call.twice
      /\ DOMAIN call.referencePoint = Objectives
      /\ Len(call.extended) = 3
      /\ PointGet(call.extended[1], k1) < PointGet(call.extended[2], k1)
      /\ PointGet(call.extended[1], k2) > PointGet(call.extended[2], k2)
      /\ PointGet(call.extended[2], k2) > 0
      /\ call.volumeExtended.value > call.volume.value

(***************************************************************************)
(* EpochShuffledBatchSampler.nextBatch on a sampler of its own             *)
(***************************************************************************)
\* the data sets have 1 to SamplerMaxN elements
SamplerMaxN == 4
\* minibatchSize is between 1 and SamplerMaxMb
SamplerMaxMb == 5
\* the iteration values passed are between 0 and SamplerMaxIter
SamplerMaxIter == 4
\* nextBatch is called up to SamplerMaxCalls times on a sampler
SamplerMaxCalls == 4

\* the slots of an epoch: the data size rounded up to a multiple of mb
SlotsPerEpoch(trainSize, mb) == ((trainSize + mb - 1) \div mb) * mb

\* a new sampler with its RNG; data[i] is i
InitSampler ==
  /\ NoRun
  /\ \E n \in 1..SamplerMaxN, mb \in 1..SamplerMaxMb, seed \in {0, 1, 65536} :
       call = [trainSize |-> n, mb |-> mb, s |-> NewSampler(n),
               rng |-> SeedState(seed), calls |-> 0, batch |-> <<>>,
               inOrder |-> TRUE, seen |-> <<>>]

\* sampler.nextBatch(data, it); inOrder tells whether the calls so far
\* passed 0, 1, 2, ... and seen is what the calls of the present epoch
\* returned, one batch after the other
CallNextBatch ==
  /\ call.calls < SamplerMaxCalls
  /\ \E it \in 0..SamplerMaxIter :
       LET nb == nextBatch(call.s, call.rng, call.trainSize, call.mb, it)
           blocks == SlotsPerEpoch(call.trainSize, call.mb) \div call.mb
       IN  call' = [call EXCEPT !.s = nb.s, !.rng = nb.rng, !.batch = nb.batch,
                                !.calls = @ + 1,
                                !.inOrder = @ /\ it = call.calls,
                                !.seen = IF it % blocks = 0 THEN nb.batch
                                         ELSE @ \o nb.batch]
  /\ UNCHANGED runVars

SpecSampler == InitSampler /\ [][CallNextBatch]_vars

\* C16: whatever the data size, the minibatch size and the iteration values
\* passed so far, nextBatch returns minibatchSize elements, each an element
\* of the data set
BatchHasFixedSize ==
  call.calls > 0 =>
    /\ Len(call.batch) = call.mb
    /\ \A i \in 1..Len(call.batch) : call.batch[i] \in 0..(call.trainSize - 1)

\* a data set smaller than the minibatch, and one whose size is not a
\* multiple of it, after calls that jumped ahead and came back
BatchHasFixedSizeWitness ==
  /\ call.calls = SamplerMaxCalls
  /\ ~call.inOrder
  /\ call.trainSize % call.mb # 0
  /\ call.s.epoch > 3
  /\ Len(call.batch) = call.mb

\* C17: on a fresh sampler called with 0, 1, 2, ... the slots returned
\* within an epoch start with every index of the data set once, in some
\* order, and only then repeat indices: no index is returned a second
\* time before every index has been returned, and a complete epoch has
\* returned them all
EpochCoversBeforeRepeat ==
  (call.inOrder /\ call.calls > 0) =>
    LET n == call.trainSize
        first == IF Len(call.seen) < n THEN Len(call.seen) ELSE n
    IN  /\ \A i, j \in 1..first : i # j => call.seen[i] # call.seen[j]
        /\ Len(call.seen) <= SlotsPerEpoch(n, call.mb)
        /\ Len(call.seen) >= n =>
             {call.seen[i] : i \in 1..n} = 0..(n - 1)

\* the second epoch of a data set of 3 with minibatches of 2 is complete:
\* three indices and one padded slot
EpochCoversBeforeRepeatWitness ==
  /\ call.inOrder
  /\ call.calls = 4
  /\ call.trainSize = 3
  /\ call.mb = 2
  /\ Len(call.seen) = 4
  /\ call.s.epoch = 2

(***************************************************************************)
(* ParetoCandidateSelector.selectCandidate on a selector of its own        *)
(***************************************************************************)
\* the archives have 1 to SelectMaxRecords records
SelectMaxRecords == 3
\* the score matrix has 0 to SelectMaxInstances columns
SelectMaxInstances == 2
\* the instance scores are between 0 and SelectMaxScore
SelectMaxScore == 2

\* rngState values: the one whose draw is 0, those whose draws are the
\* smallest positive word, the two words around one half and the largest
\* word (rand() just below 1), and the default seed
SelectWords ==
  {[hi |-> 0, lo |-> 0], [hi |-> 62133, lo |-> 34089],
   [hi |-> 54892, lo |-> 48359], [hi |-> 34816, lo |-> 16384],
   [hi |-> 24172, lo |-> 64743], SeedState(0)}

\* the score matrices set with setInstanceScores: none, or one row per
\* record with the score of each validation instance
ScoreMatrices(records) ==
  {<<>>} \cup UNION {[1..records -> [1..n -> 0..SelectMaxScore]] :
                       n \in 0..SelectMaxInstances}

InitSelect ==
  /\ NoRun
  /\ \E records \in 1..SelectMaxRecords :
       \E scalars \in [1..records -> 0..1], m \in ScoreMatrices(records),
          w \in SelectWords :
         call = [candidates |-> [i \in 1..records |-> [scalarScore |-> scalars[i]]],
                 instanceScores |-> m, rng |-> w, returned |-> FALSE, idx |-> 0]

\* selector.selectCandidate(candidates, paretoFront)
CallSelectCandidate ==
  /\ ~call.returned
  /\ call' = [call EXCEPT
                !.returned = TRUE,
                !.idx = ParetoSelect(call.candidates, call.instanceScores,
                                     call.rng).idx,
                !.rng = ParetoSelect(call.candidates, call.instanceScores,
                                     call.rng).rng]
  /\ UNCHANGED runVars

SpecSelect == InitSelect /\ [][CallSelectCandidate]_vars

\* C18: the index returned is an index of the archive, and when the score
\* matrix has at least one column the record returned has the best score
\* of the archive on at least one validation instance
SelectsFromInstanceFronts ==
  call.returned =>
    LET m == call.instanceScores
    IN  /\ call.idx \in 0..(Len(call.candidates) - 1)
        /\ (Len(m) > 0 /\ Len(m[1]) > 0) =>
             \E i \in 1..Len(m[1]) :
               \A k \in 1..Len(m) : m[call.idx + 1][i] >= m[k][i]

\* the matrix of three records on two instances where record 2 is best on
\* no instance, and the draw passes record 0 and stops at record 1
SelectsFromInstanceFrontsWitness ==
  /\ call.returned
  /\ call.instanceScores = <<<<2, 0>>, <<0, 2>>, <<1, 1>>>>
  /\ call.idx = 1

(***************************************************************************)
(* More properties of the optimization loop                                *)
(***************************************************************************)
\* C19: the parent CurrentBestCandidateSelector selects, and the record
\* finalization returns as the best, is the record with the smallest index
\* among those whose scalarScore is the maximum of the archive; bestScore
\* is that maximum, and so is not below the scalarScore of record 0
BestIsFirstMaximum ==
  LET isFirstMax(i) ==
        /\ \A j \in 1..Len(candidates) :
             candidates[j].scalarScore <= candidates[i].scalarScore
        /\ \A j \in 1..(i - 1) :
             candidates[j].scalarScore < candidates[i].scalarScore
  IN  /\ (options.strategy = "current_best"
            /\ pc \in {"gate", "reflect", "evalParent", "evalChild", "decide",
                       "evalVal"})
           => isFirstMax(parentIdx + 1)
      /\ pc = "done" =>
           \E i \in 1..Len(candidates) :
             /\ isFirstMax(i)
             /\ result.bestCandidate = candidates[i].candidate
             /\ result.bestScore = candidates[i].scalarScore
             /\ result.bestScore >= candidates[1].scalarScore

\* two accepted children share the best scalarScore, above the seed's:
\* the earlier one is returned
BestIsFirstMaximumWitness ==
  /\ pc = "done"
  /\ options.strategy = "current_best"
  /\ Len(candidates) = 3
  /\ candidates[2].scalarScore > candidates[1].scalarScore
  /\ candidates[3].scalarScore = candidates[2].scalarScore
  /\ candidates[3].candidate # candidates[2].candidate
  /\ result.bestCandidate = candidates[2].candidate

(***************************************************************************)
(* The component selectors, called on their own                            *)
(***************************************************************************)
\* the component names a candidate may have
ComponentNames == {"system", "user", "tools"}
\* the first iteration value passed is between 0 and ComponentMaxStart
ComponentMaxStart == 3
\* the selectors are called for up to ComponentMaxCalls consecutive values
ComponentMaxCalls == 4

\* candidates with 0 to 3 components in any insertion order
ComponentCandidates ==
  UNION {{[i \in 1..Len(ks) |-> [k |-> ks[i], v |-> SeedText]] :
            ks \in KeyOrders(ComponentNames, n)} :
           n \in 0..Cardinality(ComponentNames)}

InitComponents ==
  /\ NoRun
  /\ \E c \in ComponentCandidates, it \in 0..ComponentMaxStart :
       call = [candidate |-> c, start |-> it, iteration |-> it,
               roundRobin |-> <<>>, all |-> <<>>]

\* roundRobin.selectComponents(candidate, iteration) and
\* all.selectComponents(candidate, iteration), for the next iteration value
CallSelectComponents ==
  /\ Len(call.roundRobin) < ComponentMaxCalls
  /\ call' = [call EXCEPT
                !.roundRobin = Append(@, RoundRobinSelect(call.candidate,
                                                          call.iteration)),
                !.all = Append(@, AllSelect(call.candidate, call.iteration)),
                !.iteration = @ + 1]
  /\ UNCHANGED runVars

SpecComponents == InitComponents /\ [][CallSelectComponents]_vars

\* C20: for a candidate with at least one component the round-robin
\* selector returns the one name names[iteration mod len(names)], names
\* being the keys in insertion order, so that len(names) consecutive
\* iteration values select every component once; the other selector
\* returns every name at every iteration
ComponentSelection ==
  LET names == [i \in 1..Len(call.candidate) |-> call.candidate[i].k]
      n == Len(names)
  IN  /\ \A c \in 1..Len(call.all) : call.all[c] = names
      /\ n >= 1 =>
           /\ \A c \in 1..Len(call.roundRobin) :
                call.roundRobin[c] = <<names[((call.start + c - 1) % n) + 1]>>
           /\ \A c \in 1..(Len(call.roundRobin) - n + 1) :
                \A i \in 1..n :
                  Cardinality({d \in c..(c + n - 1) :
                                 call.roundRobin[d] = <<names[i]>>}) = 1

\* three components, and four consecutive iteration values that do not
\* start at a multiple of three: the fourth call selects the same
\* component as the first
ComponentSelectionWitness ==
  /\ Len(call.candidate) = 3
  /\ call.start % 3 = 2
  /\ Len(call.roundRobin) = 4
  /\ call.roundRobin[4] = call.roundRobin[1]
  /\ call.roundRobin[2] = <<call.candidate[1].k>>

(***************************************************************************)
(* Proposals: every component selector, with and without proposeNewTexts   *)
(***************************************************************************)
\* runs under an iteration cap with each component selector, with and
\* without the perfect-score gate, an adapter with or without its own
\* proposeNewTexts, whose makeReflectiveDataset gives examples for every
\* component named or for some of them
ProposeRuns ==
  {[options |-> OptionsOf([maxMetricCalls |-> Undefined, maxBudgetUSD |-> Undefined,
                           maxIterations |-> MaxIter], skip, "current_best",
                          selector, FALSE),
    adapter |-> FreeAdapter(FALSE, examples, hasPropose)] :
     selector \in {"round_robin", "all", "custom"}, examples \in BOOLEAN,
     hasPropose \in BOOLEAN, skip \in BOOLEAN}

InitPropose == InitOf(ProposeRuns) /\ call = NoRecord

SpecPropose == InitPropose /\ [][NextRun]_vars

\* the component names of a candidate
NamesOf(candidate) == {candidate[i].k : i \in 1..Len(candidate)}

\* C21: every candidate proposed and every candidate stored in the archive
\* has exactly the component names of the seed candidate
ComponentNamesFixed ==
  /\ \A r \in 1..Len(candidates) :
       NamesOf(candidates[r].candidate) = NamesOf(seedCandidate)
  /\ pc \in {"evalParent", "evalChild", "decide", "evalVal"} =>
       NamesOf(newCandidate) = NamesOf(seedCandidate)

\* the same, for the runs that use a selector of the library and the
\* default reflection
BuiltInNamesFixed ==
  (options.componentSelector # "custom" /\ ~adapter.hasPropose) => ComponentNamesFixed

(***************************************************************************)
(* new GEPA(options) under every configuration                             *)
(***************************************************************************)
\* what options.taskLM may be: not given, a model name, a function, an
\* object with a model, or something else
TaskLMs == {"undefined", "string", "function", "object", "number"}

\* the adapter of a run: the one given in options.adapter, with or without
\* proposeNewTexts, or else the DefaultAdapter the constructor makes, which
\* reports latency and cost and has no proposeNewTexts
ConstructRuns ==
  {[options |-> [OptionsOf([maxMetricCalls |-> Undefined, maxBudgetUSD |-> Undefined,
                            maxIterations |-> i], TRUE, "current_best",
                           "round_robin", FALSE)
                   EXCEPT !.hasAdapter = a, !.taskLM = t, !.reflectionLM = lm],
    adapter |-> FreeAdapter(~a, TRUE, a /\ p)] :
     i \in {Undefined, MaxIter}, a \in BOOLEAN, t \in TaskLMs, lm \in BOOLEAN,
     p \in BOOLEAN}

InitConstruct == InitOf(ConstructRuns) /\ call = NoRecord

SpecConstruct == InitConstruct /\ [][NextRun]_vars

\* no adapter evaluation and no reflection call has been made
NothingCalled ==
  /\ totalMetricCalls = 0
  /\ uncharged = 0
  /\ candidates = <<>>
  /\ newCandidate = <<>>
  /\ history = <<>>

\* C22: new GEPA(options) throws, before any adapter evaluation or
\* reflection call, when neither an adapter nor a taskLM is given, when no
\* reflectionLM is given, and when none of the three budgets is given
ConfigurationErrors ==
  (/\ pc # "new"
   /\ \/ ~options.hasAdapter /\ options.taskLM = "undefined"
      \/ ~options.reflectionLM
      \/ ~HasStoppingCriterion(options))
  => pc = "error" /\ "error" \in DOMAIN result /\ NothingCalled

\* the constructor has thrown for the missing reflection model alone, the
\* adapter given having its own proposeNewTexts
ConfigurationErrorsWitness ==
  /\ pc = "error"
  /\ options.hasAdapter
  /\ adapter.hasPropose
  /\ HasStoppingCriterion(options)
  /\ ~options.reflectionLM
  /\ result = [error |-> "reflectionLM must be provided"]

\* C23: with an adapter that defines proposeNewTexts and a stopping budget,
\* new GEPA(options) succeeds without a reflectionLM
ProposingAdapterNeedsNoReflectionLM ==
  (/\ pc # "new"
   /\ options.hasAdapter
   /\ adapter.hasPropose
   /\ ~InvalidTaskLM(options)
   /\ HasStoppingCriterion(options)
   /\ ~options.reflectionLM)
  => pc # "error"

(***************************************************************************)
(* Resuming from a checkpoint file that is missing or cannot be parsed     *)
(***************************************************************************)
\* the process has returned; the checkpoint file is then cut short (a disk
\* that filled up, a copy that was interrupted), and the same program is
\* started again on the directory
RelaunchDamaged ==
  /\ pc = "done"
  /\ run < MaxRuns
  /\ options.persist
  /\ ~Unparsable(checkpoint)
  /\ checkpoint' = [truncated |-> checkpoint]
  /\ NewProcess
  /\ UNCHANGED <<options, adapter, ref, call, archiveLog>>

NextLoad ==
  \/ NextRun
  \/ StartResumed
  \/ Relaunch
  \/ RelaunchDamaged

\* runs with persistence and resume under an iteration cap, on the
\* training set alone with the deterministic adapters
LoadRuns ==
  {[options |-> [OptionsOf([maxMetricCalls |-> Undefined, maxBudgetUSD |-> Undefined,
                            maxIterations |-> MaxIter], TRUE, "current_best",
                           "round_robin", TRUE) EXCEPT !.hasValset = FALSE],
    adapter |-> a] : a \in DetAdapters}

InitLoad == InitOf(LoadRuns) /\ call = NoRecord

SpecLoad == InitLoad /\ [][NextLoad]_vars

\* C24: when resume is requested and the checkpoint file is missing or
\* cannot be parsed, optimize() starts as a fresh run does: from iteration 0
\* and counters at 0 it evaluates the seed candidate on the validation set
\* and stores it as record 0, and enters the loop
FailedLoadStartsFresh ==
  [][(/\ pc = "start"
      /\ options.persist
      /\ options.resume
      /\ (checkpoint = NoRecord \/ Unparsable(checkpoint)))
     => (/\ totalMetricCalls = 0
         /\ totalCostUSD = 0
         /\ pc' = "loop"
         /\ iteration' = 0
         /\ stagnation' = 0
         /\ totalMetricCalls' = Len(validationSet)
         /\ Len(candidates') = 1
         /\ candidates'[1].candidate = seedCandidate
         /\ candidates'[1].parent = Undefined
         /\ Len(perInstanceScores') = 1
         /\ Len(perInstanceScores'[1]) = Len(validationSet))]_vars

\* a second process found a checkpoint file it could not parse, and has
\* evaluated the seed and entered the loop at iteration 0
FailedLoadStartsFreshWitness ==
  /\ run = 2
  /\ Unparsable(checkpoint)
  /\ options.resume
  /\ pc = "loop"
  /\ iteration = 0
  /\ Len(candidates) = 1
  /\ totalMetricCalls = Len(validationSet)

(***************************************************************************)
(* DefaultAdapter.evaluate: bounded-concurrency workers over one batch     *)
(***************************************************************************)
\* the batches have up to EvalMaxBatch instances
EvalMaxBatch == 3
\* options.maxConcurrency is between 0 and EvalMaxConcurrency
EvalMaxConcurrency == 3

\* an element of the arrays made by new Array(n) that was not assigned
Hole == [hole |-> TRUE]

\* the task at index i (0-based) of a batch of n: the tasks are told apart
\* by their position in the training data, which is not their index
TaskAt(i) == 10 + i

\* this.maxConcurrency = Math.max(1, options.maxConcurrency ?? 10)
MaxConcurrencyOf(given) == Max(1, given)

\* the last index is never taken
ExhaustedEarly(i, n) == i >= n - 1

\* if (i >= n) break
Exhausted(i, n) == i >= n

\* the error of the model call or of the scorer leaves runOne
runOneUncaught(c, i) ==
  [thrown |-> (i + 1) \in c.fail,
   output |-> [task |-> c.batch[i + 1]],
   score |-> c.answers[i + 1],
   metrics |-> [task |-> c.batch[i + 1], cost_usd |-> 1],
   trace |-> [task |-> c.batch[i + 1], error |-> FALSE, score |-> c.answers[i + 1]]]

\* what runOne(i) assigns at index i once the model call has settled: the
\* try block's values, or the catch block's when the model call or the
\* scorer threw
runOne(c, i) ==
  IF (i + 1) \in c.fail
  THEN [thrown |-> FALSE,
        output |-> [task |-> c.batch[i + 1]],
        score |-> 0,
        metrics |-> [task |-> c.batch[i + 1], cost_usd |-> 0],
        trace |-> [task |-> c.batch[i + 1], error |-> TRUE, score |-> 0]]
  ELSE [thrown |-> FALSE,
        output |-> [task |-> c.batch[i + 1]],
        score |-> c.answers[i + 1],
        metrics |-> [task |-> c.batch[i + 1], cost_usd |-> 1],
        trace |-> [task |-> c.batch[i + 1], error |-> FALSE, score |-> c.answers[i + 1]]]

\* evaluate(batch, candidate, captureTraces) has been called: the arrays are
\* allocated, the cursor is 0 and the workers are created
InitEvaluate ==
  /\ NoRun
  /\ \E n \in 0..EvalMaxBatch, given \in 0..EvalMaxConcurrency, traces \in BOOLEAN :
       \E answers \in [1..n -> ScoreValues], fail \in SUBSET (1..n) :
         call = [batch |-> [i \in 1..n |-> TaskAt(i - 1)],
                 answers |-> answers,
                 fail |-> fail,
                 captureTraces |-> traces,
                 max |-> MaxConcurrencyOf(given),
                 cursor |-> 0,
                 worker |-> [w \in 1..MaxConcurrencyOf(given) |->
                               [at |-> "claim", i |-> 0]],
                 started |-> [i \in 1..n |-> 0],
                 outputs |-> [i \in 1..n |-> Hole],
                 scores |-> [i \in 1..n |-> Undefined],
                 metrics |-> [i \in 1..n |-> Hole],
                 trajectories |-> [i \in 1..n |-> Hole],
                 promise |-> "pending"]

\* const i = cursor++; if (i >= n) break; await runOne(i): up to the await
\* of the model call inside runOne
WorkerClaims ==
  \E w \in 1..call.max :
    /\ call.worker[w].at = "claim"
    /\ LET i == call.cursor
           n == Len(call.batch)
       IN  call' = [call EXCEPT
                      !.cursor = i + 1,
                      !.worker[w] = IF Exhausted(i, n) THEN [at |-> "done", i |-> i]
                                    ELSE [at |-> "running", i |-> i],
                      !.started = IF Exhausted(i, n) \/ i >= n THEN @
                                  ELSE [@ EXCEPT ![i + 1] = @ + 1]]
    /\ UNCHANGED runVars

\* the model call of one worker settles, in any order among the workers:
\* runOne assigns its index of the arrays and the worker goes round again,
\* or the error runOne let through rejects the worker and with it the
\* Promise.all the caller awaits
RunOneSettles ==
  \E w \in 1..call.max :
    /\ call.worker[w].at = "running"
    /\ LET i == call.worker[w].i
           r == runOne(call, i)
       IN  IF r.thrown
           THEN call' = [call EXCEPT
                           !.worker[w] = [at |-> "rejected", i |-> i],
                           !.promise = IF @ = "pending" THEN "rejected" ELSE @]
           ELSE call' = [call EXCEPT
                           !.worker[w] = [at |-> "claim", i |-> i],
                           !.outputs[i + 1] = r.output,
                           !.scores[i + 1] = r.score,
                           !.metrics[i + 1] = r.metrics,
                           !.trajectories[i + 1] =
                              IF call.captureTraces THEN r.trace ELSE @]
    /\ UNCHANGED runVars

\* await Promise.all(workers) resolves once every worker has left its loop
EvaluateReturns ==
  /\ call.promise = "pending"
  /\ \A w \in 1..call.max : call.worker[w].at = "done"
  /\ call' = [call EXCEPT !.promise = "resolved"]
  /\ UNCHANGED runVars

NextEvaluate ==
  \/ WorkerClaims
  \/ RunOneSettles
  \/ EvaluateReturns

SpecEvaluate == InitEvaluate /\ [][NextEvaluate]_vars

\* the workers that are waiting for a model call
InFlight == {w \in 1..call.max : call.worker[w].at = "running"}

\* C25: under every interleaving of the workers no index is evaluated
\* twice, at most maxConcurrency evaluations are in flight, no two workers
\* hold the same index, and when the call resolves every index 0..n-1 has
\* been evaluated exactly once and has completed, with outputs[i],
\* scores[i] and metrics[i] those of batch[i]
EveryInstanceOnce ==
  LET n == Len(call.batch)
  IN  /\ \A i \in 1..n : call.started[i] <= 1
      /\ Cardinality(InFlight) <= call.max
      /\ \A v, w \in InFlight : call.worker[v].i = call.worker[w].i => v = w
      /\ call.promise = "resolved" =>
           /\ InFlight = {}
           /\ \A i \in 1..n :
                /\ call.started[i] = 1
                /\ call.outputs[i] # Hole /\ call.outputs[i].task = call.batch[i]
                /\ call.scores[i] # Undefined
                /\ call.metrics[i] # Hole /\ call.metrics[i].task = call.batch[i]

\* a batch of three on two workers has resolved, the instance at index 2
\* having been evaluated by the worker that took index 0
EveryInstanceOnceWitness ==
  /\ Len(call.batch) = 3
  /\ call.max = 2
  /\ call.promise = "resolved"
  /\ call.cursor = 5
  /\ \E w \in 1..2 : call.worker[w].i = 4
  /\ \A i \in 1..3 : call.started[i] = 1

\* C26: an instance whose model call or scorer throws gets score 0 and,
\* when traces are captured, a trace with the error marker; the call never
\* rejects, and every other instance gets the score of its own answer
FailureStaysAtInstance ==
  LET n == Len(call.batch)
  IN  /\ call.promise # "rejected"
      /\ \A w \in 1..call.max : call.worker[w].at # "rejected"
      /\ \A i \in 1..n :
           call.scores[i] # Undefined =>
             /\ call.scores[i] = IF i \in call.fail THEN 0 ELSE call.answers[i]
             /\ call.captureTraces =>
                  /\ call.trajectories[i] # Hole
                  /\ call.trajectories[i].error = (i \in call.fail)
                  /\ call.trajectories[i].score = call.scores[i]
      /\ call.promise = "resolved" =>
           \A i \in 1..n : call.scores[i] # Undefined

\* a batch of three with traces has resolved: the instance in the middle
\* threw and the two others scored 1
FailureStaysAtInstanceWitness ==
  /\ Len(call.batch) = 3
  /\ call.fail = {2}
  /\ call.captureTraces
  /\ call.promise = "resolved"
  /\ call.scores = <<One, 0, One>>
  /\ call.trajectories[2].error

(***************************************************************************)
(* The score vectors of the archive                                        *)
(***************************************************************************)
\* C27: every record of the archive has a score vector with exactly the
\* keys correctness and latency; correctness is the mean of the record's
\* per-instance validation scores, latency is the negation of a mean
\* latency and so at most 0, and scalarScore equals scores.correctness
ScoreVectorShape ==
  \A r \in 1..Len(candidates) :
    LET rec == candidates[r]
        row == perInstanceScores[r]
    IN  /\ DOMAIN rec.scores = {"correctness", "latency"}
        /\ Len(row) = Len(validationSet)
        /\ rec.scores.correctness * Len(row) = SumSeq(row)
        /\ rec.scores.latency <= 0
        /\ (0 - rec.scores.latency) \in Latencies
        /\ ~adapter.metrics => rec.scores.latency = 0
        /\ rec.scalarScore = rec.scores.correctness

\* an accepted child whose adapter reported a latency: its mean validation
\* score is strictly between 0 and 1 and its latency objective is negative
ScoreVectorShapeWitness ==
  /\ Len(candidates) >= 2
  /\ candidates[2].scores.latency < 0
  /\ candidates[2].scores.correctness > 0
  /\ candidates[2].scores.correctness < One
  /\ candidates[2].parent = 0

(***************************************************************************)
(* The order of the stop checks at the head of the loop                    *)
(***************************************************************************)
\* C28: whichever of the three stop checks at the head of the loop ends the
\* run, the iteration counter was incremented in that pass before the check
\* (the passes in which the counter of the model has saturated are left out)
IncrementPrecedesStopChecks ==
  [][(/\ pc = "loop"
      /\ pc' = "final"
      /\ (options.maxIterations # Undefined \/ iteration < IterCap))
     => iteration' = iteration + 1]_vars

\* the same for the two checks that come after iteration++ in the code
IncrementPrecedesLaterChecks ==
  [][(/\ pc = "loop"
      /\ pc' = "final"
      /\ ~StopOnMetricCalls
      /\ (options.maxIterations # Undefined \/ iteration < IterCap))
     => iteration' = iteration + 1]_vars

(***************************************************************************)
(* The perfect-score gate                                                  *)
(***************************************************************************)
\* the mean score of the parent on the minibatch, for a deterministic adapter
ParentMean ==
  average([i \in 1..Len(minibatch) |->
             adapter.score[Signature(candidates[parentIdx + 1].candidate)][minibatch[i]]])

CheckpointEveryN ==
  (/\ options.persist
   /\ run = 1
   /\ pc = "loop"
   /\ iteration >= 1
   /\ CheckpointDue(iteration))
  => checkpoint = CheckpointState(iteration, totalMetricCalls, totalCostUSD,
                                  rngState, candidates, perInstanceScores)

\* the same for the passes that run to their end, which leave a history
\* record: not those that end at the perfect-score gate
CheckpointAfterFullPass ==
  (/\ options.persist
   /\ run = 1
   /\ pc = "loop"
   /\ iteration >= 1
   /\ CheckpointDue(iteration)
   /\ history # <<>>
   /\ history[Len(history)].iteration = iteration)
  => checkpoint = CheckpointState(iteration, totalMetricCalls, totalCostUSD,
                                  rngState, candidates, perInstanceScores)

(***************************************************************************)
(* The history                                                             *)
(***************************************************************************)
\* a pass that proposed a child ends: the step after the acceptance test
\* of a rejected child, or after the validation of an accepted one
PassEnds == pc \in {"decide", "evalVal"} /\ pc' \in {"loop", "final"}

Returns == pc = "final" /\ pc' = "done"

\* C32: with persistence configured, each pass that reached the acceptance
\* test appends exactly one event, 'accepted' when it appended the child to
\* the archive and 'rejected' otherwise, under its iteration number; the
\* return appends one 'finish' event, which is then the last line of the
\* file, and writes a checkpoint with the iteration count, totalMetricCalls
\* and totalCostUSD the result reports and the archive the result was taken
\* from; no other step of the run appends an event
FinishEventAndLastCheckpoint ==
  [][options.persist =>
       /\ PassEnds =>
            archiveLog' = Append(archiveLog,
                            [iteration |-> iteration,
                             event |-> IF Len(candidates') > Len(candidates)
                                       THEN "accepted" ELSE "rejected"])
       /\ Returns =>
            /\ archiveLog' = Append(archiveLog, [iteration |-> iteration, event |-> "finish"])
            /\ checkpoint'.iteration = result'.iterations
            /\ checkpoint'.totalMetricCalls = result'.totalMetricCalls
            /\ checkpoint'.totalCostUSD = result'.totalCostUSD
            /\ checkpoint'.candidates = candidates'
            /\ \A i \in 1..Len(result'.paretoFront) :
                 \E k \in 1..Len(checkpoint'.candidates) :
                   checkpoint'.candidates[k] = result'.paretoFront[i]
       /\ (~PassEnds /\ ~Returns) => archiveLog' = archiveLog
       /\ (~Returns /\ pc \notin {"decide", "evalVal"} /\ pc' # "new") =>
            checkpoint' = checkpoint
       /\ (pc' = "done" /\ "error" \notin DOMAIN result') =>
            archiveLog'[Len(archiveLog')].event = "finish"]_vars

\* a run has returned after an accepted and a rejected pass: the file holds
\* their two events and then 'finish'
FinishEventAndLastCheckpointWitness ==
  /\ pc = "done"
  /\ options.persist
  /\ run = 1
  /\ Len(archiveLog) >= 3
  /\ \E i, j \in 1..(Len(archiveLog) - 1) :
       archiveLog[i].event = "accepted" /\ archiveLog[j].event = "rejected"
  /\ archiveLog[Len(archiveLog)].event = "finish"
  /\ checkpoint.iteration = result.iterations

(***************************************************************************)
(* The padding of a reshuffle                                              *)
(***************************************************************************)
\* the index with the smallest counter, the lowest one on ties
LeastFrequent(freq) ==
  CHOOSE a \in DOMAIN freq :
    \A b \in DOMAIN freq : freq[a] < freq[b] \/ (freq[a] = freq[b] /\ a <= b)

\* mb - trainSize % mb, or 0 when mb divides trainSize
NumToPad(trainSize, mb) == IF trainSize % mb = 0 THEN 0 ELSE mb - (trainSize % mb)

\* the padding loop of the reshuffle that starts with the counters freq,
\* stopped after k slots
PaddedAfter(freq, k) ==
  LET f1 == [i \in DOMAIN freq |-> freq[i] + 1]
  IN  PadLoop([padded |-> <<>>, freq |-> f1], SortByFreq(DOMAIN f1, f1), 0, k)

\* C33: in the reshuffle that follows any state a sampler has reached
\* (the first one included), the k-th index appended as padding is the
\* index whose counter is smallest when it is appended, the lowest one on
\* ties, and its counter is one higher afterwards
PaddingIsLeastFrequent ==
  \A k \in 0..(NumToPad(call.trainSize, call.mb) - 1) :
    LET before == PaddedAfter(call.s.freq, k)
        after  == PaddedAfter(call.s.freq, k + 1)
        id     == after.padded[k + 1]
    IN  /\ id = LeastFrequent(before.freq)
        /\ after.freq = [before.freq EXCEPT ![id] = @ + 1]

\* a sampler in its third epoch or later whose counters differ and whose
\* minibatch is larger than the data set, so that the next reshuffle pads
\* more than one slot and goes round the sorted indices more than once
PaddingIsLeastFrequentWitness ==
  /\ call.s.epoch >= 3
  /\ call.mb > call.trainSize
  /\ call.trainSize >= 2
  /\ NumToPad(call.trainSize, call.mb) > call.trainSize
  /\ \E i, j \in DOMAIN call.s.freq : call.s.freq[i] # call.s.freq[j]
  /\ PaddedAfter(call.s.freq, NumToPad(call.trainSize, call.mb)).padded[1] # 0

(***************************************************************************)
(* The order of the cumulative-weight walk                                 *)
(***************************************************************************)
\* the sum of the weights of the archive records 0..j-1 (j records)
WeightUpTo(instanceScores, j) ==
  SumSeq([k \in 1..j |-> Weight(instanceScores, k)])

\* C34: when the score matrix has at least one column, the index returned
\* for the draw r = rand() * totalWeight is the smallest archive index j,
\* among the records of the instance fronts, such that the weights of the
\* archive records 0..j add up to r or more
WalkInArchiveOrder ==
  (call.returned /\ Len(call.instanceScores) > 0 /\ Len(call.instanceScores[1]) > 0) =>
    LET m == call.instanceScores
        total == WeightUpTo(m, Len(m))
        reached(j) == /\ Weight(m, j) > 0
                      /\ DrawLeq(call.rng, total, WeightUpTo(m, j))
    IN  /\ reached(call.idx + 1)
        /\ \A j \in 1..call.idx : ~reached(j)

(***************************************************************************)
(* Parent links                                                            *)
(***************************************************************************)
\* the record reached from record i (0-based) by following parent links
RECURSIVE RootOf(_, _)
RootOf(cands, i) ==
  IF cands[i + 1].parent = Undefined THEN i ELSE RootOf(cands, cands[i + 1].parent)

\* C35: record 0 has no parent; every later record i has a parent index p
\* with 0 <= p < i, which is the parent selected in the pass that pushed
\* the record; following the parent links from any record ends at record 0
ParentLinksFormTree ==
  [][/\ Len(candidates') > 0 => candidates'[1].parent = Undefined
     /\ \A i \in 1..(Len(candidates') - 1) :
          candidates'[i + 1].parent \in 0..(i - 1)
     /\ \A i \in 0..(Len(candidates') - 1) : RootOf(candidates', i) = 0
     /\ (Len(candidates') > Len(candidates) /\ Len(candidates) > 0) =>
          /\ candidates'[Len(candidates')].parent = parentIdx
          /\ picks[Len(picks)].parent = parentIdx]_vars

\* a fresh run has returned an archive in which record 2 is a child of
\* record 1, itself a child of the seed
ParentLinksFormTreeWitness ==
  /\ pc = "done"
  /\ run = 1
  /\ Len(candidates) = 3
  /\ candidates[2].parent = 0
  /\ candidates[3].parent = 1

(***************************************************************************)
(* The parent and the Pareto front of the archive                          *)
(***************************************************************************)
\* the indices of the front the loop computes over the archive before it
\* selects the parent
paretoIndices ==
  LET front == buildParetoFront(FrontInput(candidates), tieEpsilon)
  IN  {front[i].idx : i \in 1..Len(front)}

\* C36: during a pass of a run with the 'pareto' strategy, the parent
\* selected is a member of the Pareto front computed over the archive at
\* the head of the pass
ParentIsOnParetoFront ==
  (/\ options.strategy = "pareto"
   /\ pc \in {"gate", "reflect", "evalParent", "evalChild", "decide", "evalVal"})
    => parentIdx \in paretoIndices

(***************************************************************************)
(* The best candidate and the returned front                               *)
(***************************************************************************)
\* C37: the bestCandidate of a result is the candidate of one of the
\* records of the paretoFront of the same result
BestIsOnReturnedFront ==
  (pc = "done" /\ "error" \notin DOMAIN result) =>
    \E i \in 1..Len(result.paretoFront) :
      result.paretoFront[i].candidate = result.bestCandidate

(***************************************************************************)
(* The iteration cap and the iteration count reported                      *)
(***************************************************************************)
\* C38: with maxIterations configured, at most maxIterations passes get
\* past the stop checks to select a parent, and the iteration count of the
\* result, which is also that of the last checkpoint, is the number of the
\* last pass that got past them (on a fresh run, the number of such
\* passes), hence at most maxIterations
IterationsWithinCap ==
  (pc = "done" /\ "error" \notin DOMAIN result /\ options.maxIterations # Undefined) =>
    /\ Len(picks) <= options.maxIterations
    /\ options.persist => checkpoint.iteration = result.iterations
    /\ run = 1 => result.iterations = Len(picks)
    /\ result.iterations <= options.maxIterations

\* the first half alone: at most maxIterations passes select a parent
PassesWithinCap ==
  options.maxIterations # Undefined => Len(picks) <= options.maxIterations

(***************************************************************************)
(* The metric-call budget                                                  *)
(***************************************************************************)
\* max(V, B - 1 + m + V) for B = maxMetricCalls, V the size of the
\* validation set and m the minibatch size
MetricCallsBound ==
  Max(Len(validationSet), options.maxMetricCalls - 1 + MinibatchSize + Len(validationSet))

\* C39: with maxMetricCalls configured, a pass that starts with
\* totalMetricCalls at or above it stops at the first check, before the
\* iteration counter moves and before a parent or a minibatch is chosen;
\* totalMetricCalls never exceeds max(V, B - 1 + m + V), and the result
\* reports the counter
MetricCallsOvershoot ==
  [][options.maxMetricCalls # Undefined =>
       /\ (pc = "loop" /\ totalMetricCalls >= options.maxMetricCalls) =>
            /\ pc' = "final"
            /\ UNCHANGED <<iteration, picks, totalMetricCalls, candidates>>
       /\ totalMetricCalls' <= MetricCallsBound
       /\ (pc' = "done" /\ "error" \notin DOMAIN result') =>
            result'.totalMetricCalls = totalMetricCalls']_vars

\* a run has returned with more metric calls than maxMetricCalls: its last
\* pass started below the budget and accepted a child
MetricCallsOvershootWitness ==
  /\ pc = "done"
  /\ options.maxMetricCalls = MaxCalls
  /\ result.totalMetricCalls > MaxCalls
  /\ Len(result.history) > 0
  /\ result.history[Len(result.history)].accepted

(***************************************************************************)
(* The minibatches of the first epoch of a run                             *)
(***************************************************************************)
\* blocksPerEpoch for the training set and the minibatch size of the runs
blocksPerEpoch == SlotsPerEpoch(TrainSize, MinibatchSize) \div MinibatchSize

\* C40: on a fresh run whose first blocksPerEpoch iterations have each
\* run to their end, none of them skipped at the perfect-score gate, the
\* minibatches these iterations drew together contain every training
\* instance
FirstEpochCoversTrainset ==
  (/\ run = 1
   /\ Len(picks) >= blocksPerEpoch
   /\ \A k \in 1..blocksPerEpoch :
        \E n \in 1..Len(history) : history[n].iteration = k) =>
    \A d \in 0..(TrainSize - 1) :
      \E k \in 1..blocksPerEpoch :
        \E n \in 1..Len(picks[k].minibatch) : picks[k].minibatch[n] = d

====
